---- MODULE Spec2Model ----
(***************************************************************************)
(* ResoLute game backend: the exercise timer registry, the durable data    *)
(* model (players, worlds, locations, song segments, progress rows) and    *)
(* the game services that orchestrate them.                                *)
(*                                                                         *)
(* Time is counted in ticks of 30 seconds (the shortest seeded exercise).  *)
(* Row ids are the positions in the table sequences (autoincrement from    *)
(* 1); 0 stands for None.                                                  *)
(***************************************************************************)
EXTENDS Integers, Sequences, FiniteSets, TLC

VARIABLES
    clock,      \* datetime.utcnow(), in ticks
    sessions,   \* ExerciseTimer._sessions: player id -> session object, or NoSession
    players,    \* table players: player id -> row, or NoPlayer
    worlds,     \* table worlds (sequence of rows)
    locations,  \* table locations (sequence of rows)
    segments,   \* table song_segments of the default song: segment id -> location_id
    progress,   \* table player_progress, type segment: player id -> segment id -> the rows' states
    threads,    \* in-flight requests: position and locals of each worker
    rewarded,   \* history: per session object created, how often its rewards were applied
    last        \* history: the last call made and what it returned

vars == <<clock, sessions, players, worlds, locations, segments,
          progress, threads, rewarded, last>>

----------------------------------------------------------------------------
(* Bounds of the model *)

MaxClock == 3
MaxSessions == 3
MaxXp == 800
MaxStatXp == 100
MaxGold == 60
\* how far below zero update_stats is asked to take a skill value
MaxSkillDeficit == 20
\* the highest xp total the level table is scanned with
MaxLevelXp == 4200

(* Program constants *)

NumSegments == 4
DefaultSkill == 10
SkillCap == 100
SkillBonusBase == 2
SkillBonusPerDifficulty == 1
TavernGoldMultiplier == 2
TavernReputationBase == 5
FinalBaseXp == 500
FinalBaseGold == 200
FinalBaseReputation == 100
VictoryPercent == 50

Players == {"A", "B"}
None == 0
NoPlayer == [exists |-> FALSE]
NoSession == [sid |-> 0]

\* the worker threads that serve requests; Idle: a worker between two requests
ThreadIds == {1, 2}
Idle == [pc |-> "idle", player |-> "", sess |-> NoSession, seg |-> None, seen |-> <<>>]

Max(a, b) == IF a >= b THEN a ELSE b
Min(a, b) == IF a <= b THEN a ELSE b

----------------------------------------------------------------------------
(* ExerciseSession *)

ElapsedSeconds(s, now) == now - s.started_at

RemainingSeconds(s, now) == Max(0, s.duration_seconds - ElapsedSeconds(s, now))

IsComplete(s, now) == ElapsedSeconds(s, now) >= s.duration_seconds

\* sid is the identity of the object (two sessions with equal fields are two objects)
NewSession(sid, p, e, d, dest, now) ==
    [sid |-> sid, player_id |-> p, exercise_id |-> e, duration_seconds |-> d,
     started_at |-> now, state |-> "in_progress",
     destination_location_id |-> dest]

----------------------------------------------------------------------------
(* ExerciseTimer: pure transformers of the registry.  Each returns the new *)
(* registry (ss), the object it returns to the caller (out) and the object *)
(* it removed from the registry, in its final state (dropped).             *)

\* faulty variant: only a session still in progress is expired
TimerCancelActiveOnly(ss, p) ==
    LET o == IF ss[p] = NoSession THEN NoSession
             ELSE IF ss[p].state = "in_progress"
             THEN [ss[p] EXCEPT !.state = "expired"]
             ELSE ss[p]
    IN  [ss |-> [ss EXCEPT ![p] = NoSession], out |-> o, dropped |-> o]

\* cancel_session: pop the entry, the popped object becomes expired
TimerCancel(ss, p) ==
    LET o == IF ss[p] = NoSession THEN NoSession
             ELSE [ss[p] EXCEPT !.state = "expired"]
    IN  [ss |-> [ss EXCEPT ![p] = NoSession], out |-> o, dropped |-> o]

\* faulty variant: complete_session empties the whole registry
TimerCompleteClearsAll(ss, p) ==
    LET o == IF ss[p] = NoSession THEN NoSession
             ELSE [ss[p] EXCEPT !.state = "completed"]
    IN  [ss |-> [q \in Players |-> NoSession], out |-> o, dropped |-> o]

\* complete_session: pop the entry, the popped object becomes completed
TimerComplete(ss, p) ==
    LET o == IF ss[p] = NoSession THEN NoSession
             ELSE [ss[p] EXCEPT !.state = "completed"]
    IN  [ss |-> [ss EXCEPT ![p] = NoSession], out |-> o, dropped |-> o]

\* faulty variant: the new object overwrites the entry, the old one is not cancelled
TimerStartNoCancel(ss, p, sid, e, d, dest, now) ==
    LET n == NewSession(sid, p, e, d, dest, now)
    IN  [ss |-> [ss EXCEPT ![p] = n], out |-> n, dropped |-> ss[p]]

\* start_session: cancel any existing session, then register a new object
TimerStart(ss, p, sid, e, d, dest, now) ==
    LET c == IF ss[p] # NoSession THEN TimerCancel(ss, p)
             ELSE [ss |-> ss, out |-> NoSession, dropped |-> NoSession]
        n == NewSession(sid, p, e, d, dest, now)
    IN  [ss |-> [c.ss EXCEPT ![p] = n], out |-> n, dropped |-> c.dropped]

\* faulty variant: an elapsed session is removed from the registry by the read
TimerGetPopsElapsed(ss, p, now) ==
    IF ss[p] # NoSession /\ IsComplete(ss[p], now)
    THEN [ss |-> [ss EXCEPT ![p] = NoSession],
          out |-> [ss[p] EXCEPT !.state = "completed"],
          dropped |-> [ss[p] EXCEPT !.state = "completed"]]
    ELSE [ss |-> ss, out |-> ss[p], dropped |-> NoSession]

\* faulty variant: the read returns the entry as it is stored
TimerGetNoLazy(ss, p, now) ==
    [ss |-> ss, out |-> ss[p], dropped |-> NoSession]

\* get_session: the lazy transition in_progress -> completed on read
TimerGet(ss, p, now) ==
    LET o == IF ss[p] # NoSession /\ IsComplete(ss[p], now)
                  /\ ss[p].state = "in_progress"
             THEN [ss[p] EXCEPT !.state = "completed"]
             ELSE ss[p]
    IN  [ss |-> [ss EXCEPT ![p] = o], out |-> o, dropped |-> NoSession]

\* has_active_session
HasActiveSession(ss, p) == ss[p] # NoSession /\ ss[p].state = "in_progress"

----------------------------------------------------------------------------
(* The seeded exercise library (three of its rows; durations in ticks) *)

Exercises == <<
    [exercise_type |-> "rhythm", difficulty |-> 1, duration_seconds |-> 1,
     xp_reward |-> 10, gold_reward |-> 5, skill_bonus |-> "rhythm"],
    [exercise_type |-> "melody", difficulty |-> 3, duration_seconds |-> 2,
     xp_reward |-> 20, gold_reward |-> 10, skill_bonus |-> "melody"],
    [exercise_type |-> "harmony", difficulty |-> 3, duration_seconds |-> 2,
     xp_reward |-> 20, gold_reward |-> 10, skill_bonus |-> "harmony"] >>

ExerciseIds == 1..Len(Exercises)

----------------------------------------------------------------------------
(* Initial state: a seeded database, nobody connected yet *)

\* What a call returned: its status, a number, the session object it returned
\* and the session object it removed from the registry
Call(op, p, status, val, sess, dropped) ==
    [op |-> op, player |-> p, status |-> status, val |-> val,
     sess |-> sess, dropped |-> dropped, arg |-> <<>>, ret |-> <<>>]

\* A call of a pure function: its arguments and what it returned
Apply(op, arg, ret) ==
    [Call(op, "A", "ok", 0, NoSession, NoSession) EXCEPT !.arg = arg, !.ret = ret]

Init ==
    /\ clock = 0
    /\ sessions = [p \in Players |-> NoSession]
    /\ players = [p \in Players |-> NoPlayer]
    /\ worlds = <<>>
    /\ locations = <<>>
    /\ segments = [s \in 1..NumSegments |-> None]
    /\ progress = [p \in Players |-> [s \in 1..NumSegments |-> <<>>]]
    /\ threads = [t \in ThreadIds |-> Idle]
    /\ rewarded = <<>>
    /\ last = Call("init", "A", "ok", 0, NoSession, NoSession)

\* The clock advances; nothing else moves (no background timer thread)
Tick ==
    /\ clock < MaxClock
    /\ clock' = clock + 1
    /\ last' = Call("tick", "A", "ok", 0, NoSession, NoSession)
    /\ UNCHANGED <<sessions, players, worlds, locations, segments,
                   progress, threads, rewarded>>

----------------------------------------------------------------------------
(* ExerciseTimer operations called directly *)

Found(o) == IF o = NoSession THEN "none" ELSE "ok"

StartSession(p, e, dest) ==
    /\ Len(rewarded) < MaxSessions
    /\ LET r == TimerStart(sessions, p, Len(rewarded) + 1, e,
                           Exercises[e].duration_seconds, dest, clock)
       IN  /\ sessions' = r.ss
           /\ last' = Call("start_session", p, "ok", 0, r.out, r.dropped)
    /\ rewarded' = Append(rewarded, 0)
    /\ UNCHANGED <<clock, players, worlds, locations, segments, progress, threads>>

GetSession(p) ==
    /\ LET r == TimerGet(sessions, p, clock)
       IN  /\ sessions' = r.ss
           /\ last' = Call("get_session", p, Found(r.out), 0, r.out, r.dropped)
    /\ UNCHANGED <<clock, players, worlds, locations, segments,
                   progress, threads, rewarded>>

\* check_session: get_session, then the snapshot of what it returned
CheckSession(p) ==
    /\ LET r == TimerGet(sessions, p, clock)
       IN  /\ sessions' = r.ss
           /\ last' = Call("check_session", p, Found(r.out),
                           IF r.out = NoSession THEN 0
                           ELSE RemainingSeconds(r.out, clock),
                           r.out, r.dropped)
    /\ UNCHANGED <<clock, players, worlds, locations, segments,
                   progress, threads, rewarded>>

\* can_complete: get_session, then is_complete of what it returned
CanComplete(p) ==
    /\ LET r == TimerGet(sessions, p, clock)
       IN  /\ sessions' = r.ss
           /\ last' = Call("can_complete", p,
                           IF r.out # NoSession /\ IsComplete(r.out, clock)
                           THEN "yes" ELSE "no",
                           0, r.out, r.dropped)
    /\ UNCHANGED <<clock, players, worlds, locations, segments,
                   progress, threads, rewarded>>

CompleteSession(p) ==
    /\ LET r == TimerComplete(sessions, p)
       IN  /\ sessions' = r.ss
           /\ last' = Call("complete_session", p, Found(r.out), 0, r.out, r.dropped)
    /\ UNCHANGED <<clock, players, worlds, locations, segments, progress,
                   threads, rewarded>>

CancelSession(p) ==
    /\ LET r == TimerCancel(sessions, p)
       IN  /\ sessions' = r.ss
           /\ last' = Call("cancel_session", p, Found(r.out), 0, r.out, r.dropped)
    /\ UNCHANGED <<clock, players, worlds, locations, segments, progress,
                   threads, rewarded>>

\* The (exercise, destination) pairs the direct calls are made with
TimerInputs == {<<1, None>>, <<2, 1>>}

TimerNext ==
    \/ Tick
    \/ \E p \in Players, i \in TimerInputs : StartSession(p, i[1], i[2])
    \/ \E p \in Players : GetSession(p)
    \/ \E p \in Players : CheckSession(p)
    \/ \E p \in Players : CanComplete(p)
    \/ \E p \in Players : CompleteSession(p)
    \/ \E p \in Players : CancelSession(p)

SpecTimer == Init /\ [][TimerNext]_vars

----------------------------------------------------------------------------
(* RewardCalculator *)

LevelXpRequirements == <<0, 100, 250, 500, 850, 1300, 1850, 2500, 3250, 4100>>

\* faulty variant: a level is reached only above its requirement
CalculateLevelStrict(total_xp) ==
    Max(1, Cardinality({l \in 1..Len(LevelXpRequirements) :
                            total_xp > LevelXpRequirements[l]}))

\* calculate_level: the last level of the ascending scan whose requirement is met
RECURSIVE LevelScan(_, _, _)
LevelScan(total_xp, lvl, level) ==
    IF lvl > Len(LevelXpRequirements) THEN level
    ELSE IF total_xp >= LevelXpRequirements[lvl]
         THEN LevelScan(total_xp, lvl + 1, lvl)
         ELSE level

CalculateLevel(total_xp) == LevelScan(total_xp, 1, 1)

\* check_level_up: <<leveled up, new level>>
CheckLevelUp(old_xp, new_xp) ==
    <<CalculateLevel(new_xp) > CalculateLevel(old_xp), CalculateLevel(new_xp)>>

\* int(x * q) for a quality or score q given in percent and x * q >= 0
IntTimes(x, pct) == (x * pct) \div 100

\* calculate_exercise_reward
CalculateExerciseReward(ex, pct) ==
    [xp_gained |-> IntTimes(ex.xp_reward, pct),
     gold_gained |-> IntTimes(ex.gold_reward, pct),
     skill_bonus_type |-> ex.skill_bonus,
     skill_bonus_amount |->
        IntTimes(SkillBonusBase + ex.difficulty * SkillBonusPerDifficulty, pct)]

----------------------------------------------------------------------------
(* Rows and queries of the data model *)

\* the name PlayerRepository.create gives a player created without a name
DefaultName == "Bard"

NewPlayer ==
    [exists |-> TRUE, name |-> DefaultName,
     level |-> 1, xp |-> 0, gold |-> 0, reputation |-> 0,
     skill_rhythm |-> DefaultSkill, skill_melody |-> DefaultSkill,
     skill_harmony |-> DefaultSkill, current_location_id |-> None]

\* Player.update_skill: capped at 100 from above only
UpdateSkill(row, skill_type, delta) ==
    CASE skill_type = "rhythm" ->
            [row EXCEPT !.skill_rhythm = Min(SkillCap, row.skill_rhythm + delta)]
      [] skill_type = "melody" ->
            [row EXCEPT !.skill_melody = Min(SkillCap, row.skill_melody + delta)]
      [] skill_type = "harmony" ->
            [row EXCEPT !.skill_harmony = Min(SkillCap, row.skill_harmony + delta)]

LocationIds(locs) == 1..Len(locs)

\* WorldRepository.get_by_player_id: the id of the player's world, or None
WorldOf(ws, p) ==
    IF \E w \in 1..Len(ws) : ws[w].player_id = p
    THEN CHOOSE w \in 1..Len(ws) : ws[w].player_id = p
    ELSE None

\* The ids of a world's locations that satisfy a filter, in order_index order
RECURSIVE SortedBy(_, _)
SortedBy(locs, ids) ==
    IF ids = {} THEN <<>>
    ELSE LET m == CHOOSE i \in ids : \A j \in ids :
                      \/ locs[i].order_index < locs[j].order_index
                      \/ locs[i].order_index = locs[j].order_index /\ i <= j
         IN  <<m>> \o SortedBy(locs, ids \ {m})

WorldLocations(locs, w) == {i \in LocationIds(locs) : locs[i].world_id = w}

\* WorldRepository.get_non_dungeon_locations
NonDungeonLocations(locs, w) ==
    SortedBy(locs, {i \in WorldLocations(locs, w) : locs[i].location_type # "dungeon"})

\* faulty variant: the last locked location of the world instead of the first
NextLockedLast(locs, w) ==
    LET s == SortedBy(locs, {i \in WorldLocations(locs, w) : ~locs[i].is_unlocked})
    IN  IF s = <<>> THEN None ELSE s[Len(s)]

\* The first locked location of a world in order_index order, or None
NextLocked(locs, w) ==
    LET s == SortedBy(locs, {i \in WorldLocations(locs, w) : ~locs[i].is_unlocked})
    IN  IF s = <<>> THEN None ELSE s[1]

\* WorldRepository.get_unlocked_destinations
UnlockedDestinations(locs, w, exclude_location_id) ==
    SortedBy(locs, {i \in WorldLocations(locs, w) :
                        locs[i].is_unlocked /\ i # exclude_location_id})

\* get_current_location, available_destinations of a player who has a
\* current location: the unlocked destinations, then the next locked
\* location unless it is the current location
AvailableDestinations(pl, locs, p) ==
    LET cur == pl[p].current_location_id
        w == locs[cur].world_id
        destinations == UnlockedDestinations(locs, w, cur)
        next_locked == NextLocked(locs, w)
    IN  IF next_locked # None /\ next_locked # cur
        THEN Append(destinations, next_locked)
        ELSE destinations

\* WorldService.unlock_next_location: the locations table afterwards
UnlockNextLocation(ws, locs, p) ==
    LET w == WorldOf(ws, p)
    IN  IF w = None \/ NextLocked(locs, w) = None THEN locs
        ELSE [locs EXCEPT ![NextLocked(locs, w)].is_unlocked = TRUE]

\* ProgressRepository.get_collected_segment_ids
CollectedSegmentIds(prog, p) ==
    {s \in 1..NumSegments : \E i \in 1..Len(prog[p][s]) : prog[p][s][i] = "completed"}

----------------------------------------------------------------------------
(* What the world generator may hand to create_world: the locations of a   *)
(* generated world, as (type, exercise_focus) pairs                        *)

Loc(t, f) == [type |-> t, exercise_focus |-> f]

WorldPayloads == <<
    << Loc("village", "rhythm"), Loc("tavern", "melody"), Loc("dungeon", "harmony") >>,
    << Loc("tavern", "harmony"), Loc("dungeon", "harmony") >> >>

\* _get_default_world: the locations of the hardcoded default world
DefaultWorldLocations ==
    << Loc("village", "rhythm"), Loc("village", "melody"), Loc("tavern", "harmony"),
       Loc("village", "ear_training"), Loc("dungeon", "harmony") >>

\* every location list create_world is called with; the default one is last
AllPayloads == WorldPayloads \o << DefaultWorldLocations >>
DefaultIndex == Len(AllPayloads)

----------------------------------------------------------------------------
(* WorldService.create_world, as one transaction *)

\* The rows create_location adds for a payload: order_index i, first one unlocked
NewLocations(w, payload) ==
    [i \in 1..Len(payload) |->
        [world_id |-> w, location_type |-> payload[i].type,
         exercise_focus |-> payload[i].exercise_focus,
         order_index |-> i - 1, is_unlocked |-> (i = 1)]]

\* _distribute_song_segments: segment i goes to the i-th non-dungeon location,
\* for as many segments as there are such locations
DistributeSongSegments(segs, locs, w) ==
    LET nd == NonDungeonLocations(locs, w)
    IN  [s \in 1..NumSegments |-> IF s <= Len(nd) THEN nd[s] ELSE segs[s]]

\* faulty variant: the table has no unique constraint on player_id
WorldUnconstrained(ws, p) == TRUE

\* uniqueness of worlds.player_id
WorldUnique(ws, p) == WorldOf(ws, p) = None

CreateWorld(p, k) ==
    LET w == Len(worlds) + 1
        locs == locations \o NewLocations(w, WorldPayloads[k])
        first == SortedBy(locs, WorldLocations(locs, w))
        row == IF players[p].exists THEN players[p] ELSE NewPlayer
    IN  IF ~WorldUnique(worlds, p)
        THEN \* the INSERT violates the constraint: the transaction rolls back
             /\ last' = Call("create_world", p, "raised", 0, NoSession, NoSession)
             /\ UNCHANGED <<clock, sessions, players, worlds, locations, segments,
                            progress, threads, rewarded>>
        ELSE /\ worlds' = Append(worlds, [player_id |-> p, payload |-> k])
             /\ locations' = locs
             /\ segments' = DistributeSongSegments(segments, locs, w)
             /\ players' = [players EXCEPT ![p] =
                    IF first = <<>> THEN row
                    ELSE [row EXCEPT !.current_location_id = first[1]]]
             /\ last' = Call("create_world", p, "ok", w, NoSession, NoSession)
             /\ UNCHANGED <<clock, sessions, progress, threads, rewarded>>

----------------------------------------------------------------------------
(* PlayerService *)

\* PlayerRepository.create: name or the default name ("" stands for None)
PlayerCreate(name) ==
    [NewPlayer EXCEPT !.name = IF name = "" THEN DefaultName ELSE name]

\* faulty variant: the name of an existing player is overwritten
GetOrCreateRowRenames(row, name) ==
    IF row.exists THEN [row EXCEPT !.name = IF name = "" THEN @ ELSE name]
    ELSE PlayerCreate(name)

\* get_or_create: the stored row afterwards
GetOrCreateRow(row, name) == IF row.exists THEN row ELSE PlayerCreate(name)

\* get_or_create without a name
GetOrCreate(p) ==
    /\ players' = [players EXCEPT ![p] = GetOrCreateRow(players[p], "")]
    /\ last' = Call("get_or_create", p, "ok", 0, NoSession, NoSession)
    /\ UNCHANGED <<clock, sessions, worlds, locations, segments, progress,
                   threads, rewarded>>

\* the names get_or_create is called with
PlayerNames == <<"Ann", "Bob">>

\* get_or_create with the n-th name
GetOrCreateNamed(p, n) ==
    /\ players' = [players EXCEPT ![p] = GetOrCreateRow(players[p], PlayerNames[n])]
    /\ last' = Call("get_or_create", p, "ok", n, NoSession, NoSession)
    /\ UNCHANGED <<clock, sessions, worlds, locations, segments, progress,
                   threads, rewarded>>

\* update_stats, the player row after the call (gold and reputation deltas
\* at their defaults; skill_type "" stands for None)
UpdateStatsRow(row, xp_delta, skill_type, skill_delta) ==
    LET r1 == [row EXCEPT !.xp = row.xp + xp_delta]
        r2 == IF skill_type # "" /\ skill_delta # 0
              THEN UpdateSkill(r1, skill_type, skill_delta)
              ELSE r1
        up == CheckLevelUp(row.xp, r2.xp)
    IN  IF up[1] THEN [r2 EXCEPT !.level = up[2]] ELSE r2

UpdateStats(p, xp_delta) ==
    IF ~players[p].exists
    THEN /\ last' = Call("update_stats", p, "player_not_found", 0, NoSession, NoSession)
         /\ UNCHANGED <<clock, sessions, players, worlds, locations, segments,
                        progress, threads, rewarded>>
    ELSE /\ players[p].xp + xp_delta >= 0
         /\ players[p].xp + xp_delta <= MaxStatXp
         /\ players' = [players EXCEPT ![p] = UpdateStatsRow(players[p], xp_delta, "", 0)]
         /\ last' = Call("update_stats", p, "ok", 0, NoSession, NoSession)
         /\ UNCHANGED <<clock, sessions, worlds, locations, segments, progress,
                        threads, rewarded>>

\* the value of one skill of a player row
SkillOf(row, skill_type) ==
    CASE skill_type = "rhythm" -> row.skill_rhythm
      [] skill_type = "melody" -> row.skill_melody
      [] skill_type = "harmony" -> row.skill_harmony

\* update_stats with a skill type and a skill delta (xp delta at its default)
UpdateStatsSkill(p, skill_type, skill_delta) ==
    IF ~players[p].exists
    THEN /\ last' = Call("update_stats", p, "player_not_found", 0, NoSession, NoSession)
         /\ UNCHANGED <<clock, sessions, players, worlds, locations, segments,
                        progress, threads, rewarded>>
    ELSE /\ SkillOf(players[p], skill_type) + skill_delta >= 0 - MaxSkillDeficit
         /\ players' = [players EXCEPT
                           ![p] = UpdateStatsRow(players[p], 0, skill_type, skill_delta)]
         /\ last' = Call("update_stats", p, "ok", skill_delta, NoSession, NoSession)
         /\ UNCHANGED <<clock, sessions, worlds, locations, segments, progress,
                        threads, rewarded>>

----------------------------------------------------------------------------
(* ExerciseService *)

\* faulty variant: the exercise type is not part of the filter
MatchingExercisesAnyType(focus, level) ==
    {e \in ExerciseIds :
        /\ Exercises[e].difficulty >= Max(1, level)
        /\ Exercises[e].difficulty <= level + 2}

\* ExerciseRepository.get_random with the filter of start_travel: the rows it
\* may return (an empty exercise_focus adds no type filter)
MatchingExercises(focus, level) ==
    {e \in ExerciseIds :
        /\ focus = "" \/ Exercises[e].exercise_type = focus
        /\ Exercises[e].difficulty >= Max(1, level)
        /\ Exercises[e].difficulty <= level + 2}

\* the exercises start_travel may pick: a matching one, else any
TravelExercises(focus, level) ==
    IF MatchingExercises(focus, level) # {} THEN MatchingExercises(focus, level)
    ELSE ExerciseIds

\* faulty variant: the player's session is cancelled before the destination
\* is validated
StartTravelCancelsFirst(p, dest) ==
    IF ~players[p].exists
    THEN /\ last' = Call("start_travel", p, "player_not_found", 0, NoSession, NoSession)
         /\ UNCHANGED <<clock, sessions, players, worlds, locations, segments,
                        progress, threads, rewarded>>
    ELSE IF dest \notin LocationIds(locations)
    THEN /\ sessions' = TimerCancel(sessions, p).ss
         /\ last' = Call("start_travel", p, "destination_not_found", 0,
                         NoSession, NoSession)
         /\ UNCHANGED <<clock, players, worlds, locations, segments,
                        progress, threads, rewarded>>
    ELSE /\ Len(rewarded) < MaxSessions
         /\ \E e \in TravelExercises(locations[dest].exercise_focus, players[p].level) :
              LET r == TimerStart(sessions, p, Len(rewarded) + 1, e,
                                  Exercises[e].duration_seconds, dest, clock)
              IN  /\ sessions' = r.ss
                  /\ last' = Call("start_travel", p, "travel_started", e,
                                  r.out, r.dropped)
         /\ rewarded' = Append(rewarded, 0)
         /\ UNCHANGED <<clock, players, worlds, locations, segments, progress, threads>>

\* faulty variant: the player is moved to the destination when the travel starts
StartTravelArrives(p, dest) ==
    IF ~players[p].exists
    THEN /\ last' = Call("start_travel", p, "player_not_found", 0, NoSession, NoSession)
         /\ UNCHANGED <<clock, sessions, players, worlds, locations, segments,
                        progress, threads, rewarded>>
    ELSE IF dest \notin LocationIds(locations)
    THEN /\ last' = Call("start_travel", p, "destination_not_found", 0,
                         NoSession, NoSession)
         /\ UNCHANGED <<clock, sessions, players, worlds, locations, segments,
                        progress, threads, rewarded>>
    ELSE /\ Len(rewarded) < MaxSessions
         /\ \E e \in TravelExercises(locations[dest].exercise_focus, players[p].level) :
              LET r == TimerStart(sessions, p, Len(rewarded) + 1, e,
                                  Exercises[e].duration_seconds, dest, clock)
              IN  /\ sessions' = r.ss
                  /\ last' = Call("start_travel", p, "travel_started", e,
                                  r.out, r.dropped)
         /\ players' = [players EXCEPT ![p].current_location_id = dest]
         /\ rewarded' = Append(rewarded, 0)
         /\ UNCHANGED <<clock, worlds, locations, segments, progress, threads>>

StartTravel(p, dest) ==
    IF ~players[p].exists
    THEN /\ last' = Call("start_travel", p, "player_not_found", 0, NoSession, NoSession)
         /\ UNCHANGED <<clock, sessions, players, worlds, locations, segments,
                        progress, threads, rewarded>>
    ELSE IF dest \notin LocationIds(locations)
    THEN /\ last' = Call("start_travel", p, "destination_not_found", 0,
                         NoSession, NoSession)
         /\ UNCHANGED <<clock, sessions, players, worlds, locations, segments,
                        progress, threads, rewarded>>
    ELSE /\ Len(rewarded) < MaxSessions
         /\ \E e \in TravelExercises(locations[dest].exercise_focus, players[p].level) :
              LET r == TimerStart(sessions, p, Len(rewarded) + 1, e,
                                  Exercises[e].duration_seconds, dest, clock)
              IN  /\ sessions' = r.ss
                  /\ last' = Call("start_travel", p, "travel_started", e,
                                  r.out, r.dropped)
         /\ rewarded' = Append(rewarded, 0)
         /\ UNCHANGED <<clock, players, worlds, locations, segments, progress, threads>>

\* check_exercise: check_session, an error if there is no session
CheckExercise(p) ==
    /\ LET r == TimerGet(sessions, p, clock)
       IN  /\ sessions' = r.ss
           /\ last' = IF r.out = NoSession
                      THEN Call("check_exercise", p, "no_active_exercise", 0,
                                NoSession, r.dropped)
                      ELSE Call("check_exercise", p, "ok",
                                RemainingSeconds(r.out, clock), r.out, r.dropped)
    /\ UNCHANGED <<clock, players, worlds, locations, segments,
                   progress, threads, rewarded>>

\* faulty variant: the session is accepted without looking at the elapsed time
CompleteCheckNoWait(ss, p, now) ==
    LET g == TimerGet(ss, p, now)
    IN  IF g.out = NoSession
        THEN [ss |-> g.ss, sess |-> g.out, status |-> "no_active_exercise", val |-> 0]
        ELSE [ss |-> g.ss, sess |-> g.out, status |-> "proceed", val |-> 0]

\* complete_exercise, first part: read the session and decide
\* (status proceed: the timer has elapsed)
CompleteCheck(ss, p, now) ==
    LET g == TimerGet(ss, p, now)
    IN  IF g.out = NoSession
        THEN [ss |-> g.ss, sess |-> g.out, status |-> "no_active_exercise", val |-> 0]
        ELSE IF ~IsComplete(g.out, now)
        THEN [ss |-> g.ss, sess |-> g.out, status |-> "not_yet_complete",
              val |-> RemainingSeconds(g.out, now)]
        ELSE [ss |-> g.ss, sess |-> g.out, status |-> "proceed", val |-> 0]

\* faulty variant: the rewards are applied but the player is not moved
RewardedRowNoMove(row, o) ==
    LET reward == CalculateExerciseReward(Exercises[o.exercise_id], 100)
        r1 == [row EXCEPT !.xp = row.xp + reward.xp_gained,
                          !.gold = row.gold + reward.gold_gained]
        r2 == IF reward.skill_bonus_type # ""
              THEN UpdateSkill(r1, reward.skill_bonus_type, reward.skill_bonus_amount)
              ELSE r1
        up == CheckLevelUp(row.xp, r2.xp)
    IN  IF up[1] THEN [r2 EXCEPT !.level = up[2]] ELSE r2

\* complete_exercise, the player row after the rewards and the move
RewardedRow(row, o) ==
    LET reward == CalculateExerciseReward(Exercises[o.exercise_id], 100)
        r1 == [row EXCEPT !.xp = row.xp + reward.xp_gained,
                          !.gold = row.gold + reward.gold_gained]
        r2 == IF reward.skill_bonus_type # ""
              THEN UpdateSkill(r1, reward.skill_bonus_type, reward.skill_bonus_amount)
              ELSE r1
        up == CheckLevelUp(row.xp, r2.xp)
        r3 == IF up[1] THEN [r2 EXCEPT !.level = up[2]] ELSE r2
    IN  IF o.destination_location_id # None
        THEN [r3 EXCEPT !.current_location_id = o.destination_location_id]
        ELSE r3

\* complete_exercise, second part: rewards, move, unlock, for session object o
CompleteApply(pl, ws, locs, p, o) ==
    IF ~pl[p].exists
    THEN [players |-> pl, locations |-> locs, status |-> "player_not_found", val |-> 0]
    ELSE [players |-> [pl EXCEPT ![p] = RewardedRow(pl[p], o)],
          locations |-> IF o.destination_location_id # None
                        THEN UnlockNextLocation(ws, locs, p) ELSE locs,
          status |-> "exercise_completed",
          val |-> CalculateExerciseReward(Exercises[o.exercise_id], 100).xp_gained]

\* complete_exercise when nothing interleaves
CompleteExercise(p) ==
    LET c == CompleteCheck(sessions, p, clock)
        a == CompleteApply(players, worlds, locations, p, c.sess)
        t == TimerComplete(c.ss, p)
    IN  IF c.status # "proceed"
        THEN /\ sessions' = c.ss
             /\ last' = Call("complete_exercise", p, c.status, c.val, c.sess, NoSession)
             /\ UNCHANGED <<clock, players, worlds, locations, segments, progress,
                            threads, rewarded>>
        ELSE IF a.status # "exercise_completed"
        THEN /\ sessions' = c.ss
             /\ last' = Call("complete_exercise", p, a.status, 0, c.sess, NoSession)
             /\ UNCHANGED <<clock, players, worlds, locations, segments, progress,
                            threads, rewarded>>
        ELSE /\ players' = a.players
             /\ locations' = a.locations
             /\ sessions' = t.ss
             /\ rewarded' = [rewarded EXCEPT ![c.sess.sid] = @ + 1]
             /\ last' = Call("complete_exercise", p, a.status, a.val, t.out, t.dropped)
             /\ UNCHANGED <<clock, worlds, segments, progress, threads>>

----------------------------------------------------------------------------
(* QuestService *)

\* faulty variant: the table has no unique constraint
ProgressUnconstrained(prog, p, s) == TRUE

\* uniqueness of player_progress (player_id, progress_type, reference_id)
ProgressUnique(prog, p, s) == prog[p][s] = <<>>

\* ProgressRepository.mark_completed: sets the state on the object, then the
\* timestamp expression datetime.now(datetime.UTC) raises AttributeError
\* (datetime is the class here), so the call never returns
MarkCompleted(rows) ==
    [raised |-> TRUE, rows |-> [i \in 1..Len(rows) |-> "completed"]]

\* The checks collect_segment makes before it writes
CollectOutcome(pl, segs, prog, p, s) ==
    IF s \notin 1..NumSegments THEN "segment_not_found"
    ELSE IF ~pl[p].exists THEN "player_not_found"
    ELSE IF segs[s] # pl[p].current_location_id THEN "location_mismatch"
    ELSE IF prog[p][s] # <<>> /\ prog[p][s][1] = "completed" THEN "already_collected"
    ELSE "collectable"

\* QuestService.collect_segment: create the row if there is none, mark it
\* completed.  seen is the row list the lookup returned.  An exception rolls
\* the transaction back.
CollectWrite(prog, p, s, seen) ==
    LET created == IF seen = <<>> THEN Append(prog[p][s], "not_started")
                   ELSE prog[p][s]
        m == MarkCompleted(created)
    IN  IF seen = <<>> /\ ~ProgressUnique(prog, p, s)
        THEN [progress |-> prog, status |-> "raised"]
        ELSE IF m.raised
        THEN [progress |-> prog, status |-> "raised"]
        ELSE [progress |-> [prog EXCEPT ![p][s] = m.rows],
              status |-> "segment_collected"]

CollectSegment(p, s) ==
    LET o == CollectOutcome(players, segments, progress, p, s)
        w == CollectWrite(progress, p, s, progress[p][s])
    IN  IF o # "collectable"
        THEN /\ last' = Call("collect_segment", p, o, s, NoSession, NoSession)
             /\ UNCHANGED <<clock, sessions, players, worlds, locations, segments,
                            progress, threads, rewarded>>
        ELSE /\ progress' = w.progress
             /\ last' = Call("collect_segment", p, w.status, s, NoSession, NoSession)
             /\ UNCHANGED <<clock, sessions, players, worlds, locations, segments,
                            threads, rewarded>>

\* SyncGameStateManager.collect_segment: the same checks; the row is added or
\* updated with state completed and a timestamp from datetime.utcnow()
SyncCollectWrite(prog, p, s, seen) ==
    IF seen = <<>> /\ ~ProgressUnique(prog, p, s)
    THEN [progress |-> prog, status |-> "raised"]
    ELSE [progress |-> [prog EXCEPT ![p][s] =
                IF seen = <<>> THEN Append(prog[p][s], "completed")
                ELSE [i \in 1..Len(prog[p][s]) |-> "completed"]],
          status |-> "segment_collected"]

SyncCollectSegment(p, s) ==
    LET o == CollectOutcome(players, segments, progress, p, s)
        w == SyncCollectWrite(progress, p, s, progress[p][s])
    IN  IF o # "collectable"
        THEN /\ last' = Call("sync_collect_segment", p, o, s, NoSession, NoSession)
             /\ UNCHANGED <<clock, sessions, players, worlds, locations, segments,
                            progress, threads, rewarded>>
        ELSE /\ progress' = w.progress
             /\ last' = Call("sync_collect_segment", p, w.status, s, NoSession, NoSession)
             /\ UNCHANGED <<clock, sessions, players, worlds, locations, segments,
                            threads, rewarded>>

\* faulty variant: one segment may be missing
InventoryLenient(prog, p) ==
    [collected |-> CollectedSegmentIds(prog, p),
     total_segments |-> NumSegments,
     can_perform_final |-> Cardinality(CollectedSegmentIds(prog, p)) >= NumSegments - 1]

\* get_inventory: the collected segments and can_perform_final
Inventory(prog, p) ==
    [collected |-> CollectedSegmentIds(prog, p),
     total_segments |-> NumSegments,
     can_perform_final |-> Cardinality(CollectedSegmentIds(prog, p)) = NumSegments]

\* faulty variant: the reward does not grow with the song's difficulty
CalculatePerformanceRewardFlat(song_difficulty, pct) ==
    [gold_gained |-> IntTimes(10 * TavernGoldMultiplier, pct),
     reputation_gained |-> IntTimes(TavernReputationBase, pct)]

\* calculate_performance_reward
CalculatePerformanceReward(song_difficulty, pct) ==
    [gold_gained |-> IntTimes(10 * song_difficulty * TavernGoldMultiplier, pct),
     reputation_gained |-> IntTimes(TavernReputationBase * song_difficulty, pct)]

PerformAtTavern(p, pct) ==
    LET row == players[p]
        n == Cardinality(Inventory(progress, p).collected)
        rw == CalculatePerformanceReward(1 + (n \div 2), pct)
        fail(status) ==
            /\ last' = Call("perform_at_tavern", p, status, 0, NoSession, NoSession)
            /\ UNCHANGED <<clock, sessions, players, worlds, locations, segments,
                           progress, threads, rewarded>>
    IN  IF ~row.exists THEN fail("player_not_found")
        ELSE IF row.current_location_id = None THEN fail("no_location")
        ELSE IF \/ row.current_location_id \notin LocationIds(locations)
                \/ locations[row.current_location_id].location_type # "tavern"
        THEN fail("not_at_tavern")
        ELSE /\ row.gold + rw.gold_gained <= MaxGold
             /\ players' = [players EXCEPT ![p] =
                    [row EXCEPT !.gold = row.gold + rw.gold_gained,
                                !.reputation = row.reputation + rw.reputation_gained]]
             /\ last' = Call("perform_at_tavern", p, "performance_complete",
                             rw.gold_gained, NoSession, NoSession)
             /\ UNCHANGED <<clock, sessions, worlds, locations, segments, progress,
                            threads, rewarded>>

\* faulty variant: every performance is a victory
CalculateFinalQuestRewardAlwaysWon(n, pct) ==
    LET mult == Min(1500, 800 + n * 175)
    IN  [xp_gained |-> (FinalBaseXp * mult * pct) \div 100000,
         gold_gained |-> (FinalBaseGold * mult * pct) \div 100000,
         reputation_gained |-> (FinalBaseReputation * mult * pct) \div 100000,
         victory |-> TRUE]

\* calculate_final_quest_reward; the multiplier min(1.5, 0.8 + n * 0.175) in 1/1000
CalculateFinalQuestReward(n, pct) ==
    LET mult == Min(1500, 800 + n * 175)
    IN  [xp_gained |-> (FinalBaseXp * mult * pct) \div 100000,
         gold_gained |-> (FinalBaseGold * mult * pct) \div 100000,
         reputation_gained |-> (FinalBaseReputation * mult * pct) \div 100000,
         victory |-> pct >= VictoryPercent]

CompleteFinalQuest(p, pct) ==
    LET inv == Inventory(progress, p)
        row == players[p]
        rw == CalculateFinalQuestReward(Cardinality(inv.collected), pct)
        fail(status) ==
            /\ last' = Call("complete_final_quest", p, status,
                            Cardinality(inv.collected), NoSession, NoSession)
            /\ UNCHANGED <<clock, sessions, players, worlds, locations, segments,
                           progress, threads, rewarded>>
    IN  IF ~inv.can_perform_final THEN fail("segments_incomplete")
        ELSE IF ~row.exists THEN fail("player_not_found")
        ELSE IF WorldOf(worlds, p) = None THEN fail("world_not_found")
        ELSE IF ~rw.victory
        THEN \* a success result with victory false and the computed rewards
             /\ last' = Call("complete_final_quest", p, "quest_failed",
                             rw.xp_gained, NoSession, NoSession)
             /\ UNCHANGED <<clock, sessions, players, worlds, locations, segments,
                            progress, threads, rewarded>>
        ELSE /\ row.xp + rw.xp_gained <= MaxXp
             /\ players' = [players EXCEPT ![p] =
                    [row EXCEPT !.xp = row.xp + rw.xp_gained,
                                !.gold = row.gold + rw.gold_gained,
                                !.reputation = row.reputation + rw.reputation_gained]]
             /\ last' = Call("complete_final_quest", p, "game_complete",
                             rw.xp_gained, NoSession, NoSession)
             /\ UNCHANGED <<clock, sessions, worlds, locations, segments, progress,
                            threads, rewarded>>

----------------------------------------------------------------------------
(* The services called one request at a time *)

XpDeltas == {-100, 100}
PerformScores == {100}
FinalScores == {40, 100}
\* destination ids asked for: the existing ones and one that does not exist
Destinations == LocationIds(locations) \cup {Len(locations) + 1}

\* Travel: the requests of one player that move the timer, the location and
\* the unlock flags
Next ==
    \/ Tick
    \/ GetOrCreate("A")
    \/ \E k \in 1..Len(WorldPayloads) : CreateWorld("A", k)
    \/ \E d \in XpDeltas : UpdateStats("A", d)
    \/ \E dest \in Destinations : StartTravel("A", dest)
    \/ CheckExercise("A")
    \/ CompleteExercise("A")
    \/ \E s \in 1..NumSegments : CollectSegment("A", s)

Spec == Init /\ [][Next]_vars

\* Quest: the requests of one player about segments, performances and the
\* final quest
QuestNext ==
    \/ GetOrCreate("A")
    \/ \E n \in 1..Len(PlayerNames) : GetOrCreateNamed("A", n)
    \/ \E k \in 1..Len(WorldPayloads) : CreateWorld("A", k)
    \/ \E d \in XpDeltas : UpdateStats("A", d)
    \/ \E s \in 1..NumSegments : CollectSegment("A", s)
    \/ \E s \in 1..NumSegments : SyncCollectSegment("A", s)
    \/ \E pct \in PerformScores : PerformAtTavern("A", pct)
    \/ \E pct \in FinalScores : CompleteFinalQuest("A", pct)

SpecQuest == Init /\ [][QuestNext]_vars

\* the destination several players or workers travel to: the second location
ConcDestinations == {2}

\* the second location of the first and of the second world created
TwoDestinations == {2, 5}

\* Two players: the requests of both, one at a time
TwoNext ==
    \/ Tick
    \/ \E p \in Players : CreateWorld(p, 1)
    \/ \E p \in Players, dest \in TwoDestinations : StartTravel(p, dest)
    \/ \E p \in Players : CompleteExercise(p)
    \/ \E p \in Players, s \in 1..2 : SyncCollectSegment(p, s)

SpecTwo == Init /\ [][TwoNext]_vars

SkillTypes == {"rhythm", "melody", "harmony"}
SkillDeltas == {-60, 90}

\* Skills: the requests of one player that change its skill values
SkillNext ==
    \/ Tick
    \/ GetOrCreate("A")
    \/ CreateWorld("A", 1)
    \/ \E t \in SkillTypes, d \in SkillDeltas : UpdateStatsSkill("A", t, d)
    \/ \E dest \in ConcDestinations : StartTravel("A", dest)
    \/ CompleteExercise("A")

SpecSkill == Init /\ [][SkillNext]_vars

LevelDeltas == {1, 50}

\* update_stats with a positive xp delta, for totals up to MaxLevelXp
GainXp(p, xp_delta) ==
    /\ players[p].exists
    /\ players[p].xp + xp_delta <= MaxLevelXp
    /\ players' = [players EXCEPT ![p] = UpdateStatsRow(players[p], xp_delta, "", 0)]
    /\ last' = Call("update_stats", p, "ok", xp_delta, NoSession, NoSession)
    /\ UNCHANGED <<clock, sessions, worlds, locations, segments, progress,
                   threads, rewarded>>

\* Levels: one player gains xp step by step through the whole level table
LevelNext ==
    \/ GetOrCreate("A")
    \/ \E d \in LevelDeltas : GainXp("A", d)

SpecLevel == Init /\ [][LevelNext]_vars

\* completion_quality in percent: the multiples of 0.25
Qualities == {0, 25, 50, 75, 100}
PlayerLevels == 1..Len(LevelXpRequirements)

\* calculate_exercise_reward called for exercise e (player_level is not used
\* by the function)
ExerciseReward(e, player_level, pct) ==
    /\ last' = Apply("calculate_exercise_reward", <<e, player_level, pct>>,
                     CalculateExerciseReward(Exercises[e], pct))
    /\ UNCHANGED <<clock, sessions, players, worlds, locations, segments,
                   progress, threads, rewarded>>

RewardNext ==
    \E e \in ExerciseIds, l \in PlayerLevels, pct \in Qualities : ExerciseReward(e, l, pct)

SpecReward == Init /\ [][RewardNext]_vars

----------------------------------------------------------------------------
(* Requests served by concurrent workers.  Between the reads a request makes *)
(* and its writes another worker may run a whole request; the writes of a   *)
(* request, its commit and its timer call happen in one step.               *)

\* complete_exercise up to the is_complete check
BeginComplete(t, p) ==
    /\ threads[t].pc = "idle"
    /\ LET c == CompleteCheck(sessions, p, clock)
       IN  /\ sessions' = c.ss
           /\ IF c.status # "proceed"
              THEN /\ last' = Call("complete_exercise", p, c.status, c.val,
                                   c.sess, NoSession)
                   /\ UNCHANGED threads
              ELSE /\ last' = Call("read", p, "pending", 0, c.sess, NoSession)
                   /\ threads' = [threads EXCEPT ![t] =
                         [Idle EXCEPT !.pc = "complete", !.player = p, !.sess = c.sess]]
    /\ UNCHANGED <<clock, players, worlds, locations, segments, progress, rewarded>>

\* complete_exercise from the exercise lookup to the return
FinishComplete(t) ==
    /\ threads[t].pc = "complete"
    /\ LET p == threads[t].player
           o == threads[t].sess
           a == CompleteApply(players, worlds, locations, p, o)
           r == TimerComplete(sessions, p)
       IN  IF a.status # "exercise_completed"
           THEN /\ last' = Call("complete_exercise", p, a.status, 0, o, NoSession)
                /\ UNCHANGED <<sessions, players, locations, rewarded>>
           ELSE /\ players' = a.players
                /\ locations' = a.locations
                /\ sessions' = r.ss
                /\ rewarded' = [rewarded EXCEPT ![o.sid] = @ + 1]
                /\ last' = Call("complete_exercise", p, a.status, a.val, o, r.dropped)
    /\ threads' = [threads EXCEPT ![t] = Idle]
    /\ UNCHANGED <<clock, worlds, segments, progress>>

\* collect_segment (of the service named by op) up to the progress lookup
BeginCollect(t, p, s, op) ==
    /\ threads[t].pc = "idle"
    /\ LET o == CollectOutcome(players, segments, progress, p, s)
       IN  IF o # "collectable"
           THEN /\ last' = Call(op, p, o, s, NoSession, NoSession)
                /\ UNCHANGED threads
           ELSE /\ last' = Call("read", p, "pending", s, NoSession, NoSession)
                /\ threads' = [threads EXCEPT ![t] =
                      [Idle EXCEPT !.pc = op, !.player = p, !.seg = s,
                                   !.seen = progress[p][s]]]
    /\ UNCHANGED <<clock, sessions, players, worlds, locations, segments,
                   progress, rewarded>>

\* QuestService.collect_segment from the row creation to the return
FinishCollect(t) ==
    /\ threads[t].pc = "collect_segment"
    /\ LET w == CollectWrite(progress, threads[t].player, threads[t].seg,
                             threads[t].seen)
       IN  /\ progress' = w.progress
           /\ last' = Call("collect_segment", threads[t].player, w.status,
                           threads[t].seg, NoSession, NoSession)
    /\ threads' = [threads EXCEPT ![t] = Idle]
    /\ UNCHANGED <<clock, sessions, players, worlds, locations, segments, rewarded>>

\* SyncGameStateManager.collect_segment from the row creation to the commit
FinishSyncCollect(t) ==
    /\ threads[t].pc = "sync_collect_segment"
    /\ LET w == SyncCollectWrite(progress, threads[t].player, threads[t].seg,
                                 threads[t].seen)
       IN  /\ progress' = w.progress
           /\ last' = Call("sync_collect_segment", threads[t].player, w.status,
                           threads[t].seg, NoSession, NoSession)
    /\ threads' = [threads EXCEPT ![t] = Idle]
    /\ UNCHANGED <<clock, sessions, players, worlds, locations, segments, rewarded>>

ConcNext ==
    \/ Tick
    \/ \E k \in 1..Len(WorldPayloads) : CreateWorld("A", k)
    \/ \E dest \in ConcDestinations : StartTravel("A", dest)
    \/ \E t \in ThreadIds : BeginComplete(t, "A")
    \/ \E t \in ThreadIds : FinishComplete(t)
    \/ \E t \in ThreadIds, s \in 1..NumSegments : BeginCollect(t, "A", s, "collect_segment")
    \/ \E t \in ThreadIds : FinishCollect(t)
    \/ \E t \in ThreadIds, s \in 1..NumSegments :
            BeginCollect(t, "A", s, "sync_collect_segment")
    \/ \E t \in ThreadIds : FinishSyncCollect(t)

SpecConc == Init /\ [][ConcNext]_vars

----------------------------------------------------------------------------
(* The world request: get_or_generate, the generator, create_world, all in  *)
(* one storage session.  create_world writes step by step, each write is a  *)
(* flush: 1 the player row (if missing), 2 the world row, 2+i the i-th      *)
(* location, N+3 the segment rebinding, N+4 the player's starting location. *)

WorldSteps(k) == Len(AllPayloads[k]) + 4

\* the tables as the session sees them after the first n steps of create_world
CreateWorldStaged(db, p, k, n) ==
    LET w == Len(db.worlds) + 1
        payload == AllPayloads[k]
        row == IF db.players[p].exists \/ n < 1 THEN db.players[p] ELSE NewPlayer
        new == NewLocations(w, payload)
        locs == db.locations \o
                [i \in 1..Min(Len(payload), Max(0, n - 2)) |-> new[i]]
        first == SortedBy(locs, WorldLocations(locs, w))
    IN  [players |-> [db.players EXCEPT ![p] =
                        IF n >= WorldSteps(k) /\ first # <<>>
                        THEN [row EXCEPT !.current_location_id = first[1]]
                        ELSE row],
         worlds |-> IF n >= 2 THEN Append(db.worlds, [player_id |-> p, payload |-> k])
                    ELSE db.worlds,
         locations |-> locs,
         segments |-> IF n >= WorldSteps(k) - 1
                      THEN DistributeSongSegments(db.segments, locs, w)
                      ELSE db.segments]

\* faulty variant: what the session had written when the flush failed is kept
SessionEndKeepsWrites(db, staged, failed) == staged

\* AppContext.session around a request: commit if no flush failed; a failed
\* flush has rolled the session's transaction back, and the rollback of the
\* context manager (or the refused commit) leaves the tables as they were
SessionEnd(db, staged, failed) == IF failed THEN db ELSE staged

\* handle_world up to the generator call
BeginWorld(t, p) ==
    /\ threads[t].pc = "idle"
    /\ IF WorldOf(worlds, p) # None
       THEN /\ last' = Call("world_request", p, "world_state", WorldOf(worlds, p),
                            NoSession, NoSession)
            /\ UNCHANGED threads
       ELSE /\ last' = Call("read", p, "needs_generation", 0, NoSession, NoSession)
            /\ threads' = [threads EXCEPT ![t] =
                  [Idle EXCEPT !.pc = "world_request", !.player = p]]
    /\ UNCHANGED <<clock, sessions, players, worlds, locations, segments,
                   progress, rewarded>>

\* handle_world from create_world to the end of the session.  f > 0: the
\* f-th flush fails (the database refuses or is locked); the insert of a
\* second world for the player is refused by the unique constraint
FinishWorld(t, k, f) ==
    /\ threads[t].pc = "world_request"
    /\ LET p == threads[t].player
           db == [players |-> players, worlds |-> worlds,
                  locations |-> locations, segments |-> segments]
           refused == ~WorldUnique(worlds, p)
           done == IF f > 0 /\ (~refused \/ f < 2) THEN f - 1
                   ELSE IF refused THEN 1
                   ELSE WorldSteps(k)
           failed == f > 0 \/ refused
           end == SessionEnd(db, CreateWorldStaged(db, p, k, done), failed)
       IN  /\ players' = end.players
           /\ worlds' = end.worlds
           /\ locations' = end.locations
           /\ segments' = end.segments
           /\ last' = Call("world_request", p,
                           IF failed THEN "error" ELSE "world_state",
                           IF failed THEN done ELSE Len(worlds) + 1,
                           NoSession, NoSession)
    /\ threads' = [threads EXCEPT ![t] = Idle]
    /\ UNCHANGED <<clock, sessions, progress, rewarded>>

\* which flush fails: none, or any of the flushes of the longest payload
FailurePoints == 0..WorldSteps(1)

WorldNext ==
    \/ Tick
    \/ \E t \in ThreadIds, p \in Players : BeginWorld(t, p)
    \/ \E t \in ThreadIds, k \in 1..Len(WorldPayloads), f \in FailurePoints :
            f <= WorldSteps(k) /\ FinishWorld(t, k, f)
    \/ \E dest \in ConcDestinations : StartTravel("A", dest)
    \/ CompleteExercise("A")

SpecWorld == Init /\ [][WorldNext]_vars

----------------------------------------------------------------------------
(* websocket_endpoint: one receive loop per connection.  A thread record    *)
(* stands for a connection: pc is "receiving" while the loop runs and       *)
(* "closed" once an exception has left the endpoint; seen holds the types   *)
(* of the responses sent for the last request.                              *)

Receiving(p) == [Idle EXCEPT !.pc = "receiving", !.player = p]

ConnectionOf(p) == {t \in ThreadIds : threads[t].pc = "receiving" /\ threads[t].player = p}

\* the loop after a handler returned a response of type r: it is sent
Responded(t, r) == [threads EXCEPT ![t].seen = <<r>>]

\* the loop after a handler raised: only WebSocketDisconnect is caught, so
\* the exception leaves the endpoint and nothing is sent
Raised(t) == [threads EXCEPT ![t].pc = "closed", ![t].seen = <<>>]

\* What the language model can do when asked for a world: the call raises;
\* the text holds no JSON (or JSON that does not decode); a required field
\* is missing; there are fewer than three locations; every field is there
\* but the name is null; the content is well formed
GeneratorOutcomes == <<
    [raised |-> TRUE,  json |-> FALSE, fields |-> FALSE, locations |-> 1, name |-> "text"],
    [raised |-> FALSE, json |-> FALSE, fields |-> FALSE, locations |-> 1, name |-> "text"],
    [raised |-> FALSE, json |-> TRUE,  fields |-> FALSE, locations |-> 1, name |-> "text"],
    [raised |-> FALSE, json |-> TRUE,  fields |-> TRUE,  locations |-> 2, name |-> "text"],
    [raised |-> FALSE, json |-> TRUE,  fields |-> TRUE,  locations |-> 1, name |-> "null"],
    [raised |-> FALSE, json |-> TRUE,  fields |-> TRUE,  locations |-> 1, name |-> "text"] >>

WellFormed == Len(GeneratorOutcomes)

\* _get_default_world
DefaultWorld == [locations |-> DefaultIndex, name |-> "text"]

\* _validate_world_data: the required fields are present and there are at
\* least three locations, else the default world; the values of the fields
\* are not looked at
ValidateWorldData(data) ==
    IF ~data.fields \/ Len(AllPayloads[data.locations]) < 3 THEN DefaultWorld
    ELSE [locations |-> data.locations, name |-> data.name]

\* generate_world: any exception and any undecodable text give the default
GenerateWorld(g) ==
    LET o == GeneratorOutcomes[g]
    IN  IF o.raised \/ ~o.json THEN DefaultWorld ELSE ValidateWorldData(o)

\* connect, then the world request of a player who has no world yet.  A null
\* name makes the INSERT of the world row fail (step 2 of create_world); the
\* handler swallows that exception, the commit of the session then raises
\* and the exception leaves the endpoint before the receive loop starts.
Connect(t, p, g) ==
    /\ threads[t].pc \in {"idle", "closed"}
    /\ ConnectionOf(p) = {}
    /\ LET db == [players |-> [players EXCEPT
                                 ![p] = IF players[p].exists THEN players[p]
                                        ELSE NewPlayer],
                  worlds |-> worlds, locations |-> locations, segments |-> segments]
           needs_world == WorldOf(worlds, p) = None
           d == GenerateWorld(g)
           k == d.locations
           failed == needs_world /\ d.name = "null"
           done == IF failed THEN 1 ELSE WorldSteps(k)
           end == IF needs_world
                  THEN SessionEnd(db, CreateWorldStaged(db, p, k, done), failed)
                  ELSE db
       IN  /\ players' = end.players
           /\ worlds' = end.worlds
           /\ locations' = end.locations
           /\ segments' = end.segments
           /\ threads' = [threads EXCEPT ![t] =
                 IF failed
                 THEN [Idle EXCEPT !.pc = "closed", !.player = p,
                                   !.seen = <<"connected", "world_generating">>]
                 ELSE [Receiving(p) EXCEPT !.seen =
                         IF needs_world
                         THEN <<"connected", "world_generating", "world_state">>
                         ELSE <<"connected">>]]
           /\ last' = Call("connect", p, IF failed THEN "raised" ELSE "ok", g,
                           NoSession, NoSession)
    /\ UNCHANGED <<clock, sessions, progress, rewarded>>

\* a status message: answered by the loop itself
RouteStatus(t) ==
    /\ threads[t].pc = "receiving"
    /\ threads' = Responded(t, "status")
    /\ last' = Call("status", threads[t].player, "ok", 0, NoSession, NoSession)
    /\ UNCHANGED <<clock, sessions, players, worlds, locations, segments,
                   progress, rewarded>>

\* an inventory message: handle_inventory_request
RouteInventory(t) ==
    /\ threads[t].pc = "receiving"
    /\ threads' = Responded(t, "inventory_update")
    /\ last' = Call("inventory", threads[t].player, "ok",
                    Cardinality(Inventory(progress, threads[t].player).collected),
                    NoSession, NoSession)
    /\ UNCHANGED <<clock, sessions, players, worlds, locations, segments,
                   progress, rewarded>>

\* a collect message: handle_collect_request inside AppContext.session
RouteCollect(t, s) ==
    /\ threads[t].pc = "receiving"
    /\ LET p == threads[t].player
           o == CollectOutcome(players, segments, progress, p, s)
           w == CollectWrite(progress, p, s, progress[p][s])
       IN  IF o # "collectable"
           THEN /\ threads' = Responded(t, "error")
                /\ last' = Call("collect", p, o, s, NoSession, NoSession)
                /\ UNCHANGED progress
           ELSE IF w.status = "raised"
           THEN /\ threads' = Raised(t)
                /\ last' = Call("collect", p, "raised", s, NoSession, NoSession)
                /\ UNCHANGED progress
           ELSE /\ threads' = Responded(t, "segment_collected")
                /\ progress' = w.progress
                /\ last' = Call("collect", p, w.status, s, NoSession, NoSession)
    /\ UNCHANGED <<clock, sessions, players, worlds, locations, segments, rewarded>>

\* the client goes away: WebSocketDisconnect ends the loop
Disconnect(t) ==
    /\ threads[t].pc = "receiving"
    /\ threads' = [threads EXCEPT ![t] = Idle]
    /\ last' = Call("disconnect", threads[t].player, "ok", 0, NoSession, NoSession)
    /\ UNCHANGED <<clock, sessions, players, worlds, locations, segments,
                   progress, rewarded>>

RouterNext ==
    \/ \E t \in ThreadIds, p \in Players, g \in 1..Len(GeneratorOutcomes) :
            Connect(t, p, g)
    \/ \E t \in ThreadIds : RouteStatus(t)
    \/ \E t \in ThreadIds : RouteInventory(t)
    \/ \E t \in ThreadIds, s \in 1..NumSegments : RouteCollect(t, s)
    \/ \E t \in ThreadIds : Disconnect(t)

SpecRouter == Init /\ [][RouterNext]_vars

----------------------------------------------------------------------------
(* Claims about the exercise timer registry (SpecTimer) *)

\* C1: in every reachable state of the registry each player id maps to at most
\* one session, whose player_id is its key; no object is registered for two
\* players, and an object that left the registry is no longer active, so a
\* player never has two active sessions.
C1_OneSessionPerPlayer ==
    /\ \A p \in Players : sessions[p] # NoSession =>
            /\ sessions[p].player_id = p
            /\ sessions[p].state \in {"in_progress", "completed"}
    /\ \A p, q \in Players :
            p # q /\ sessions[p] # NoSession /\ sessions[q] # NoSession
                => sessions[p].sid # sessions[q].sid
    /\ last.dropped # NoSession =>
            /\ last.dropped.state \in {"expired", "completed"}
            /\ \A p \in Players : sessions[p] = NoSession
                                  \/ sessions[p].sid # last.dropped.sid

C1_Witness ==
    /\ \A p \in Players : sessions[p] # NoSession
    /\ last.op = "start_session"
    /\ last.dropped # NoSession

\* C2: start_session(p) for a player who has a registered session leaves
\* exactly one registered session for p, the new one, in state in_progress, and
\* the replaced object ends in state expired whatever its state was.
C2_ReplaceExpires ==
    [][\A p \in Players :
        (last'.op = "start_session" /\ last'.player = p /\ sessions[p] # NoSession)
        => /\ sessions'[p] = last'.sess
           /\ sessions'[p].state = "in_progress"
           /\ sessions'[p].sid # sessions[p].sid
           /\ last'.dropped = [sessions[p] EXCEPT !.state = "expired"]]_vars

\* a replacement of a session whose timer had already elapsed
C2_Witness ==
    /\ last.op = "start_session"
    /\ last.dropped # NoSession
    /\ last.dropped.state = "expired"
    /\ IsComplete(last.dropped, clock)
    /\ sessions[last.player] = last.sess
    /\ sessions[last.player].state = "in_progress"

----------------------------------------------------------------------------
(* Claims about travel (Spec) *)

Unlocked(locs, w) == {i \in WorldLocations(locs, w) : locs[i].is_unlocked}
Locked(locs, w) == {i \in WorldLocations(locs, w) : ~locs[i].is_unlocked}
NewlyUnlocked(old, new) ==
    {i \in LocationIds(new) : new[i].is_unlocked /\ (i \notin LocationIds(old) \/ ~old[i].is_unlocked)}

\* the unlocked locations of every world are a prefix of its order_index sequence
UnlockedIsPrefix ==
    \A w \in 1..Len(worlds) : \A i, j \in WorldLocations(locations, w) :
        locations[i].order_index < locations[j].order_index /\ locations[j].is_unlocked
            => locations[i].is_unlocked

\* C4: after create_world with at least one location exactly the location with
\* order_index 0 is unlocked; a successful complete_exercise with a destination
\* unlocks at most one more location, the locked one with the lowest
\* order_index of the player's world, and locks none; so the unlocked locations
\* of a world are always a prefix of the order_index sequence.
C4_UnlockPrefix ==
    /\ []UnlockedIsPrefix
    /\ [][/\ (last'.op = "create_world" /\ last'.status = "ok")
              => \A i \in WorldLocations(locations', last'.val) :
                     locations'[i].is_unlocked <=> locations'[i].order_index = 0
          /\ \A p \in Players :
              (/\ last'.op = "complete_exercise" /\ last'.player = p
               /\ last'.status = "exercise_completed"
               /\ last'.sess.destination_location_id # None)
              => LET w == WorldOf(worlds, p)
                     n == NewlyUnlocked(locations, locations')
                 IN  /\ Cardinality(n) <= 1
                     /\ \A i \in n :
                          /\ i \in Locked(locations, w)
                          /\ \A j \in Locked(locations, w) :
                                locations[i].order_index <= locations[j].order_index
                     /\ \A i \in LocationIds(locations) :
                          locations[i].is_unlocked => locations'[i].is_unlocked]_vars

\* a completed travel has just unlocked the second of three locations
C4_Witness ==
    /\ last.op = "complete_exercise"
    /\ last.status = "exercise_completed"
    /\ last.sess.destination_location_id # None
    /\ \E w \in 1..Len(worlds) :
        /\ Cardinality(Unlocked(locations, w)) = 2
        /\ Cardinality(Locked(locations, w)) = 1

\* C6: complete_exercise(p) while p has a registered session whose elapsed time
\* is below its duration returns not-yet-complete with the remaining time, and
\* leaves the session registered in_progress and the player's stats, location
\* and the unlock flags unchanged.
C6_EarlyCompleteRejected ==
    [][\A p \in Players :
        (/\ last'.op = "complete_exercise" /\ last'.player = p
         /\ sessions[p] # NoSession
         /\ ElapsedSeconds(sessions[p], clock) < sessions[p].duration_seconds)
        => /\ last'.status = "not_yet_complete"
           /\ last'.val = sessions[p].duration_seconds - ElapsedSeconds(sessions[p], clock)
           /\ last'.val > 0
           /\ sessions'[p] = sessions[p]
           /\ sessions'[p].state = "in_progress"
           /\ players' = players
           /\ locations' = locations]_vars

C6_Witness ==
    /\ last.op = "complete_exercise"
    /\ last.status = "not_yet_complete"
    /\ last.val > 0
    /\ sessions[last.player] # NoSession
    /\ sessions[last.player].state = "in_progress"

\* C7: a session started by start_travel to an existing destination, once its
\* duration has elapsed, is completed by complete_exercise: the call returns
\* exercise_completed with xp_gained > 0, the player's current_location_id is
\* the destination, xp and gold grew by the exercise's rewards, and no session
\* stays registered for the player.
C7_TravelCompletes ==
    [][\A p \in Players :
        (/\ last'.op = "complete_exercise" /\ last'.player = p
         /\ sessions[p] # NoSession
         /\ sessions[p].destination_location_id \in LocationIds(locations)
         /\ ElapsedSeconds(sessions[p], clock) >= sessions[p].duration_seconds)
        => /\ last'.status = "exercise_completed"
           /\ last'.val > 0
           /\ players'[p].current_location_id = sessions[p].destination_location_id
           /\ players'[p].xp = players[p].xp + last'.val
           /\ last'.val = Exercises[sessions[p].exercise_id].xp_reward
           /\ players'[p].gold =
                players[p].gold + Exercises[sessions[p].exercise_id].gold_reward
           /\ sessions'[p] = NoSession]_vars

\* a travel to another location than the current one has been completed
C7_Witness ==
    /\ last.op = "complete_exercise"
    /\ last.status = "exercise_completed"
    /\ last.val > 0
    /\ last.dropped # NoSession
    /\ last.dropped.destination_location_id = 2
    /\ players[last.player].current_location_id = 2
    /\ sessions[last.player] = NoSession

\* C8 (first half): the first collect_segment(p, s) made at the location the
\* segment is bound to succeeds and leaves a completed progress row for (p, s).
C8_FirstCollectSucceeds ==
    [][\A p \in Players, s \in 1..NumSegments :
        (/\ last'.op = "collect_segment" /\ last'.player = p /\ last'.val = s
         /\ CollectOutcome(players, segments, progress, p, s) = "collectable")
        => /\ last'.status = "segment_collected"
           /\ s \in CollectedSegmentIds(progress', p)]_vars

\* C5: for every player, level = calculate_level(xp) in every state reached by
\* complete_exercise, perform_at_tavern, complete_final_quest and update_stats.
C5_LevelMatchesXp ==
    \A p \in Players :
        players[p].exists => players[p].level = CalculateLevel(players[p].xp)

----------------------------------------------------------------------------
(* Claims about concurrent requests (SpecConc) *)

\* C3: when two complete_exercise requests of one player interleave against
\* one elapsed session, the rewards and the unlock of that session are applied
\* at most once.
C3_RewardsAtMostOnce ==
    \A i \in 1..Len(rewarded) : rewarded[i] <= 1

\* C9: there is never more than one progress row per (player, segment), also
\* when collect_segment requests interleave, and a row in state completed stays
\* completed.
C9_OneRowCompletedStays ==
    /\ [](\A p \in Players, s \in 1..NumSegments : Len(progress[p][s]) <= 1)
    /\ [][\A p \in Players, s \in 1..NumSegments :
            \A i \in 1..Len(progress[p][s]) :
                progress[p][s][i] = "completed"
                    => /\ i <= Len(progress'[p][s])
                       /\ progress'[p][s][i] = "completed"]_vars

\* two requests read "no row" for the same segment; one has inserted its row,
\* the other's insert was then refused
C9_Witness ==
    /\ last.op = "sync_collect_segment"
    /\ last.status = "raised"
    /\ progress[last.player][last.val] = <<"completed">>

----------------------------------------------------------------------------
(* Claims about two players (SpecTwo) *)

\* get_current_location: the uncollected segments of the player's location
UncollectedSegments(pl, segs, prog, p) ==
    IF ~pl[p].exists \/ pl[p].current_location_id = None THEN {}
    ELSE {s \in 1..NumSegments :
            segs[s] = pl[p].current_location_id /\ s \notin CollectedSegmentIds(prog, p)}

\* What a player can observe through its own requests: its stats, its timer
\* session, the uncollected segments of its location, its inventory and the
\* outcome collect_segment would have for each segment
Observed(pl, ss, segs, prog, p) ==
    [stats |-> pl[p],
     session |-> ss[p],
     uncollected |-> UncollectedSegments(pl, segs, prog, p),
     inventory |-> Inventory(prog, p),
     collect |-> [s \in 1..NumSegments |-> CollectOutcome(pl, segs, prog, p, s)]]

\* C10: no request made for one player changes what another player observes:
\* its location view with the uncollected segments, its inventory, its stats,
\* its timer session, and the outcome of its own collect_segment requests.
C10_PlayersIsolated ==
    [][\A a, b \in Players :
        (a # b /\ last'.player = a /\ last'.op \notin {"tick", "init"})
        => Observed(players', sessions', segments', progress', b)
            = Observed(players, sessions, segments, progress, b)]_vars

----------------------------------------------------------------------------
(* Claims about world requests (SpecWorld) *)

WorldsOf(ws, p) == {w \in 1..Len(ws) : ws[w].player_id = p}

\* C11: every player has at most one world, also when two world requests of a
\* world-less player both see needs_generation before either creates the
\* world; and an existing world's row and its set of locations never change,
\* except for the is_unlocked flags.
C11_OneWorldImmutable ==
    /\ [](\A p \in Players : Cardinality(WorldsOf(worlds, p)) <= 1)
    /\ [][/\ Len(worlds') >= Len(worlds)
          /\ Len(locations') >= Len(locations)
          /\ \A w \in 1..Len(worlds) :
                /\ worlds'[w] = worlds[w]
                /\ WorldLocations(locations', w) = WorldLocations(locations, w)
          /\ \A i \in LocationIds(locations) :
                [locations'[i] EXCEPT !.is_unlocked = locations[i].is_unlocked]
                    = locations[i]]_vars

\* the loser of a race: its request saw no world, and its insert was refused
C11_Witness ==
    /\ last.op = "world_request"
    /\ last.status = "error"
    /\ last.val = 1
    /\ WorldOf(worlds, last.player) # None
    /\ \E i \in LocationIds(locations) :
          locations[i].order_index > 0 /\ locations[i].is_unlocked

\* C12: after a world request returns, either the player has a world with all
\* N locations, the segments distributed and current_location_id set to the
\* first location, or the tables hold no world, no location and no segment
\* rebinding (and no player row) from that request.
C12_CreateWorldAllOrNothing ==
    [][\A p \in Players :
        (last'.op = "world_request" /\ last'.player = p)
        => \/ /\ last'.status = "world_state"
              /\ WorldOf(worlds, p) # None
              /\ UNCHANGED <<worlds, locations, segments, players>>
           \/ /\ last'.status = "world_state"
              /\ WorldOf(worlds, p) = None
              /\ LET w == WorldOf(worlds', p)
                     locs == SortedBy(locations', WorldLocations(locations', w))
                 IN  /\ w = last'.val
                     /\ w # None
                     /\ Len(worlds') = Len(worlds) + 1
                     /\ Len(locs) = Len(WorldPayloads[worlds'[w].payload])
                     /\ Len(locations') = Len(locations) + Len(locs)
                     /\ \A i \in 1..Len(locs) :
                            locations'[locs[i]].order_index = i - 1
                     /\ segments' = DistributeSongSegments(segments, locations', w)
                     /\ players'[p].exists
                     /\ players'[p].current_location_id = locs[1]
           \/ /\ last'.status = "error"
              /\ UNCHANGED <<worlds, locations, segments, players>>]_vars

\* a request failed after it had written the world row and two locations
C12_Witness ==
    /\ last.op = "world_request"
    /\ last.status = "error"
    /\ last.val = 4
    /\ WorldOf(worlds, last.player) = None
    /\ ~players[last.player].exists

----------------------------------------------------------------------------
(* Claims about the services called one request at a time, continued *)

\* C13: after create_world for a world with K >= 1 non-dungeon locations the
\* segment with segment_index i (the i+1-th segment) is bound to the
\* (i mod K)-th non-dungeon location of that world in order_index order.
C13_SegmentsRoundRobin ==
    [][(last'.op = "create_world" /\ last'.status = "ok")
        => LET nd == NonDungeonLocations(locations', last'.val)
           IN  Len(nd) >= 1 =>
                 \A s \in 1..NumSegments :
                    segments'[s] = nd[((s - 1) % Len(nd)) + 1]]_vars

----------------------------------------------------------------------------
(* Claims about the quest (SpecQuest) *)

\* the player stands at a location of type tavern
AtTavern(pl, locs, p) ==
    /\ pl[p].exists
    /\ pl[p].current_location_id \in LocationIds(locs)
    /\ locs[pl[p].current_location_id].location_type = "tavern"

C15_FinalQuestNeedsAllSegments ==
    [][\A p \in Players :
        (last'.op = "complete_final_quest" /\ last'.player = p)
        => LET n == Cardinality(CollectedSegmentIds(progress, p))
           IN  /\ Inventory(progress, p).can_perform_final <=> n = NumSegments
               /\ Inventory(progress, p).total_segments = NumSegments
               /\ n # NumSegments =>
                    /\ last'.status = "segments_incomplete"
                    /\ last'.val = n
                    /\ players' = players
               /\ last'.status \in {"quest_failed", "game_complete"}
                    => n = NumSegments]_vars

\* refused with three of the four segments collected
C15_Witness ==
    /\ last.op = "complete_final_quest"
    /\ last.status = "segments_incomplete"
    /\ last.val = NumSegments - 1
    /\ players[last.player].exists

\* C16: perform_at_tavern succeeds exactly when the player's current location
\* is a tavern; then it adds the gold and reputation computed for
\* song_difficulty = 1 + (collected segments // 2) and leaves the collected
\* segments unchanged; otherwise it returns an error and leaves gold and
\* reputation unchanged.
C16_TavernOnly ==
    [][\A p \in Players :
        (last'.op = "perform_at_tavern" /\ last'.player = p)
        => LET d == 1 + (Cardinality(CollectedSegmentIds(progress, p)) \div 2)
           IN  /\ last'.status = "performance_complete" <=> AtTavern(players, locations, p)
               /\ AtTavern(players, locations, p) =>
                    \E pct \in PerformScores :
                        /\ players'[p].gold = players[p].gold + (20 * d * pct) \div 100
                        /\ players'[p].reputation =
                                players[p].reputation + (5 * d * pct) \div 100
                        /\ players'[p] = [players[p] EXCEPT
                                !.gold = players'[p].gold,
                                !.reputation = players'[p].reputation]
               /\ ~AtTavern(players, locations, p) => players' = players
               /\ progress' = progress]_vars

\* a performance with two or three segments collected: song_difficulty 2
C16_Witness ==
    /\ last.op = "perform_at_tavern"
    /\ last.status = "performance_complete"
    /\ last.val = 40
    /\ Cardinality(CollectedSegmentIds(progress, last.player)) \in {2, 3}

\* C17: collect_segment for a segment whose bound location differs from the
\* player's current location, or that is bound to no location, returns the
\* location-mismatch error and creates or changes no progress row.
C17_MismatchRejected ==
    [][\A p \in Players, s \in 1..NumSegments :
        (/\ last'.op = "collect_segment" /\ last'.player = p /\ last'.val = s
         /\ players[p].exists
         /\ segments[s] = None \/ segments[s] # players[p].current_location_id)
        => /\ last'.status = "location_mismatch"
           /\ progress' = progress]_vars


----------------------------------------------------------------------------
(* Session objects never leave a final state *)

Final(o) == o # NoSession /\ o.state \in {"completed", "expired"}

\* C19: once a session object is in state completed or expired, its state
\* never changes again: neither while it stays registered nor when a call
\* removes it from the registry, under get_session, check_session,
\* complete_session, cancel_session and start_session.
C19_FinalStateIsFinal ==
    [][\A p \in Players :
        Final(sessions[p])
        => /\ (sessions'[p] # NoSession /\ sessions'[p].sid = sessions[p].sid)
              => sessions'[p].state = sessions[p].state
           /\ (last'.dropped # NoSession /\ last'.dropped.sid = sessions[p].sid)
              => last'.dropped.state = sessions[p].state]_vars

----------------------------------------------------------------------------
(* Skill values stay within 0..100 *)

SkillInRange(v) == 0 <= v /\ v <= SkillCap

\* C18: in every reachable state, after any update_stats calls with positive
\* or negative skill deltas and any complete_exercise calls, each of the
\* three skill values of a player lies in 0..100.
C18_SkillsInRange ==
    \A p \in Players :
        players[p].exists
        => \A t \in SkillTypes : SkillInRange(SkillOf(players[p], t))

----------------------------------------------------------------------------
(* start_travel is the only way into the timer registry *)

\* player p has, after the step, a registered session object it did not
\* have registered before
NewlyRegistered(p) ==
    /\ sessions'[p] # NoSession
    /\ sessions[p] = NoSession \/ sessions'[p].sid # sessions[p].sid

----------------------------------------------------------------------------
(* Reading an elapsed session *)

\* the fields of a session object that do not depend on the time of the read
SameButState(a, b) == [a EXCEPT !.state = b.state] = b

\* C21: once a registered session has elapsed >= duration, every get_session
\* or check_session of that player returns that same session object in state
\* completed and leaves it registered; a call on a session that is already
\* completed changes nothing in the registry, and no call changes a field
\* other than the state.
C21_GetSessionIdempotent ==
    [][\A p \in Players :
        (/\ last'.op \in {"get_session", "check_session"} /\ last'.player = p
         /\ sessions[p] # NoSession /\ IsComplete(sessions[p], clock))
        => /\ last'.sess.state = "completed"
           /\ SameButState(sessions[p], last'.sess)
           /\ sessions' = [sessions EXCEPT ![p] = last'.sess]
           /\ sessions[p].state = "completed" => sessions' = sessions]_vars

\* a get_session has just returned a session that was already completed by
\* an earlier read
C21_Witness ==
    /\ last.op = "get_session"
    /\ last.sess # NoSession
    /\ last.sess.state = "completed"
    /\ sessions[last.player] = last.sess
    /\ ElapsedSeconds(last.sess, clock) > last.sess.duration_seconds

----------------------------------------------------------------------------
(* Unlocking and arrival *)

\* the player who owns the world of location l
OwnerOf(ws, locs, l) == ws[locs[l].world_id].player_id

\* no complete_exercise has succeeded yet: no player has travelled anywhere
NobodyArrivedYet == \A sid \in 1..Len(rewarded) : rewarded[sid] = 0

\* C22: a location with order_index > 0 is unlocked only if its player has
\* arrived at it.  Stated for the first arrival of all, where the places a
\* player has been are known from the state: a location that becomes
\* unlocked in that step is the location its player arrives at.
C22_UnlockedOnlyOnArrival ==
    [][\A l \in NewlyUnlocked(locations, locations') :
        (locations'[l].order_index > 0 /\ NobodyArrivedYet)
        => players'[OwnerOf(worlds', locations', l)].current_location_id = l]_vars

----------------------------------------------------------------------------
(* Exceptions at the router *)

\* C23: when the service call of a client request raises, the router sends
\* a response of type error on that connection and the connection's receive
\* loop keeps running.
C23_RaiseBecomesError ==
    [][\A t \in ThreadIds :
        (/\ threads[t].pc = "receiving"
         /\ last'.op = "collect" /\ last'.player = threads[t].player
         /\ last'.status = "raised")
        => /\ threads'[t].pc = "receiving"
           /\ threads'[t].seen = <<"error">>]_vars

----------------------------------------------------------------------------
(* The default world as the fallback of the generator *)

\* C24: when the generator fails (it raises or returns malformed content)
\* during the world request of a player without a world, the request ends
\* with the player owning a world built from the default payload and
\* standing at one of its locations.
C24_GeneratorFailureGivesDefaultWorld ==
    [][\A p \in Players :
        (/\ last'.op = "connect" /\ last'.player = p
         /\ WorldOf(worlds, p) = None
         /\ last'.val # WellFormed)
        => /\ WorldOf(worlds', p) # None
           /\ worlds'[WorldOf(worlds', p)].payload = DefaultIndex
           /\ players'[p].current_location_id
                 \in WorldLocations(locations', WorldOf(worlds', p))]_vars

----------------------------------------------------------------------------
(* The destinations offered at the current location *)

Range(seq) == {seq[i] : i \in 1..Len(seq)}

HasLocation(p) ==
    players[p].exists /\ players[p].current_location_id \in LocationIds(locations)

\* C25: the available destinations at the current location are exactly the
\* unlocked locations of its world other than the current one plus, if the
\* world has a locked location, the locked one with the lowest order_index;
\* the current location is never among them and at most one of them is
\* locked.
C25_AvailableDestinations ==
    \A p \in Players :
        HasLocation(p)
        => LET cur == players[p].current_location_id
               w == locations[cur].world_id
               d == Range(AvailableDestinations(players, locations, p))
           IN  /\ d = (Unlocked(locations, w) \ {cur})
                        \cup (IF NextLocked(locations, w) # None
                              THEN {NextLocked(locations, w)} ELSE {})
               /\ cur \notin d
               /\ Cardinality(d \cap Locked(locations, w)) <= 1

----------------------------------------------------------------------------
(* The exercise start_travel picks *)

\* the exercises of the library whose type is the focus and whose difficulty
\* lies in level..level+2
FitsDestination(focus, level) ==
    {e \in ExerciseIds :
        /\ Exercises[e].exercise_type = focus
        /\ level <= Exercises[e].difficulty
        /\ Exercises[e].difficulty <= level + 2}

----------------------------------------------------------------------------
(* get_or_create *)

\* C27: get_or_create for an unknown id stores a player with level 1, skills
\* 10/10/10 and xp, gold and reputation 0 (named as asked, or by default);
\* for an existing id it changes no stored field of any player, the name
\* included, so that repeated calls store what the first call stored.
C27_GetOrCreateIdempotent ==
    [][\A p \in Players :
        (last'.op = "get_or_create" /\ last'.player = p)
        => /\ last'.status = "ok"
           /\ players[p].exists => players' = players
           /\ ~players[p].exists
               => /\ players' = [players EXCEPT ![p] = players'[p]]
                  /\ players'[p].exists
                  /\ players'[p].name = IF last'.val = 0 THEN DefaultName
                                        ELSE PlayerNames[last'.val]
                  /\ players'[p].level = 1
                  /\ players'[p].xp = 0 /\ players'[p].gold = 0
                  /\ players'[p].reputation = 0
                  /\ players'[p].skill_rhythm = 10
                  /\ players'[p].skill_melody = 10
                  /\ players'[p].skill_harmony = 10]_vars

\* get_or_create has just been called with another name for a player who
\* already has a name and has earned xp
C27_Witness ==
    /\ last.op = "get_or_create"
    /\ last.val > 0
    /\ players[last.player].name # PlayerNames[last.val]
    /\ players[last.player].xp > 0

----------------------------------------------------------------------------
(* check_exercise *)

\* the tables of the database
Durable == <<players, worlds, locations, segments, progress>>

\* C28: check_exercise fails with the no-active-exercise error exactly when
\* the player has no registered session, and otherwise returns the snapshot
\* of the registered session; in both cases the database is unchanged and
\* every player has the same session object registered as before, or none
\* as before.
C28_CheckExerciseReadOnly ==
    [][\A p \in Players :
        (last'.op = "check_exercise" /\ last'.player = p)
        => /\ last'.status = "no_active_exercise" <=> sessions[p] = NoSession
           /\ sessions[p] # NoSession
               => /\ last'.status = "ok"
                  /\ last'.sess.sid = sessions[p].sid
                  /\ last'.val = RemainingSeconds(sessions[p], clock)
           /\ Durable' = Durable
           /\ \A q \in Players : sessions'[q].sid = sessions[q].sid]_vars

\* check_exercise has just returned the snapshot of an elapsed session,
\* which is still registered
C28_Witness ==
    /\ last.op = "check_exercise"
    /\ last.status = "ok"
    /\ last.sess.state = "completed"
    /\ sessions[last.player] = last.sess

----------------------------------------------------------------------------
(* calculate_level *)

\* the highest level of the table whose requirement is at most xp
HighestLevel(xp) ==
    CHOOSE l \in 1..Len(LevelXpRequirements) :
        /\ LevelXpRequirements[l] <= xp
        /\ \A m \in 1..Len(LevelXpRequirements) :
              LevelXpRequirements[m] <= xp => m <= l

\* C29: for every xp >= 0, calculate_level(xp) is at least 1 and is the
\* highest level whose requirement (0, 100, 250, 500, 850, 1300, 1850, 2500,
\* 3250, 4100) is at most xp; it never decreases when xp grows.  Checked on
\* every total from 0 to MaxLevelXp, and on the level update_stats stores.
C29_LevelFromXp ==
    /\ [](\A p \in Players :
            players[p].exists
            => /\ CalculateLevel(players[p].xp) >= 1
               /\ CalculateLevel(players[p].xp) = HighestLevel(players[p].xp)
               /\ players[p].level = CalculateLevel(players[p].xp))
    /\ [][\A p \in Players :
            (players[p].exists /\ players'[p].exists /\ players'[p].xp >= players[p].xp)
            => CalculateLevel(players'[p].xp) >= CalculateLevel(players[p].xp)]_vars

\* a player has just reached the requirement of the last level exactly
C29_Witness ==
    /\ last.op = "update_stats"
    /\ players[last.player].xp = LevelXpRequirements[Len(LevelXpRequirements)]
    /\ players[last.player].level = Len(LevelXpRequirements)

----------------------------------------------------------------------------
(* calculate_exercise_reward *)

\* r is an integer nearest to x * pct / 100 (at a tie both neighbours are)
IsRounded(r, x, pct) ==
    /\ 100 * r - x * pct <= 50
    /\ x * pct - 100 * r <= 50

\* C30: for every exercise and every quality among the multiples of 0.25,
\* calculate_exercise_reward returns xp_gained, gold_gained and the skill
\* bonus equal to xp_reward * quality, gold_reward * quality and
\* (2 + difficulty) * quality rounded to the nearest integer.
C30_RewardIsRounded ==
    last.op = "calculate_exercise_reward"
    => LET ex == Exercises[last.arg[1]]
           pct == last.arg[3]
       IN  /\ IsRounded(last.ret.xp_gained, ex.xp_reward, pct)
           /\ IsRounded(last.ret.gold_gained, ex.gold_reward, pct)
           /\ IsRounded(last.ret.skill_bonus_amount,
                        SkillBonusBase + ex.difficulty * SkillBonusPerDifficulty, pct)


----------------------------------------------------------------------------
(* ExerciseSession.to_dict: the snapshot check_session returns.  Times are *)
(* exact fractions of a second here: the clock counts hundredths.          *)

MaxElapsedCs == 320
CentisPerSecond == 100
SnapshotDurations == {0, 1, 3}

\* round(n / d): the nearest integer, a tie going to the even one
RoundDiv(n, d) ==
    LET q == n \div d
        r == n % d
    IN  IF 2 * r < d THEN q
        ELSE IF 2 * r > d THEN q + 1
        ELSE IF q % 2 = 0 THEN q ELSE q + 1

\* round(x, 1) of the fraction x = <<numerator, denominator>>, in tenths
Round1(x) == RoundDiv(10 * x[1], x[2])

\* faulty variant: the progress is not capped at 100
ProgressPercentUncapped(s, now) ==
    IF s.duration_seconds = 0 THEN <<100, 1>>
    ELSE <<100 * ElapsedSeconds(s, now), s.duration_seconds>>

\* progress_percent as a fraction <<numerator, denominator>>
ProgressPercent(s, now) ==
    IF s.duration_seconds = 0 THEN <<100, 1>>
    ELSE IF ElapsedSeconds(s, now) >= s.duration_seconds THEN <<100, 1>>
    ELSE <<100 * ElapsedSeconds(s, now), s.duration_seconds>>

\* to_dict read at clock reading now, the clock counting per units a second;
\* the three rounded numbers are in tenths
ToDict(s, now, per) ==
    [duration_seconds |-> s.duration_seconds,
     elapsed_seconds |-> Round1(<<ElapsedSeconds(s, now), per>>),
     remaining_seconds |-> Round1(<<RemainingSeconds(s, now), per>>),
     progress_percent |-> Round1(ProgressPercent(s, now)),
     state |-> s.state,
     is_complete |-> IsComplete(s, now)]

\* A session of d seconds started at 0 is read after e hundredths of a second
Snapshot(d, e) ==
    /\ last' = Apply("to_dict", <<d, e>>,
                     ToDict(NewSession(1, "A", 1, CentisPerSecond * d, None, 0),
                            e, CentisPerSecond))
    /\ UNCHANGED <<clock, sessions, players, worlds, locations, segments,
                   progress, threads, rewarded>>

SnapshotNext ==
    \E d \in SnapshotDurations, e \in 0..MaxElapsedCs : Snapshot(d, e)

SpecSnapshot == Init /\ [][SnapshotNext]_vars

\* The numbers of snapshot snap are exactly those of a session of d
\* hundredths read after x hundredths
SnapshotExact(snap, d, x) ==
    /\ IF d = 0 \/ x >= d THEN snap.progress_percent = 1000
       ELSE snap.progress_percent * d = 1000 * x
    /\ 10 * snap.remaining_seconds = Max(0, d - x)
    /\ snap.is_complete <=> x >= d

\* The original statement of C31: for every session and every clock reading
\* the snapshot has progress_percent = min(100, elapsed/duration*100), 100
\* when the duration is 0, remaining_seconds = max(0, duration - elapsed) and
\* is_complete true exactly when elapsed >= duration, elapsed being either
\* the time that passed or the elapsed_seconds the snapshot reports; a
\* session of duration 0 is complete as soon as it is started.
C31_SnapshotExact ==
    last.op = "to_dict" =>
        LET d == CentisPerSecond * last.arg[1]
            snap == last.ret
        IN  /\ \/ SnapshotExact(snap, d, last.arg[2])
               \/ SnapshotExact(snap, d, 10 * snap.elapsed_seconds)
            /\ d = 0 => snap.is_complete

\* tenths t is a nearest tenth of the fraction n / d
NearestTenth(t, n, d) ==
    /\ 2 * (t * d - 10 * n) <= d
    /\ 2 * (10 * n - t * d) <= d

\* C31: for every session and every clock reading the snapshot reports, each
\* rounded to one decimal, elapsed_seconds, progress_percent =
\* min(100, elapsed/duration*100) (100 when the duration is 0, never above
\* 100) and remaining_seconds = max(0, duration - elapsed); is_complete is
\* true exactly when the time that passed is at least the duration; a
\* session of duration 0 is complete, at 100 percent with nothing remaining,
\* as soon as it is started.
C31_SnapshotRounded ==
    last.op = "to_dict" =>
        LET d == CentisPerSecond * last.arg[1]
            x == last.arg[2]
            snap == last.ret
        IN  /\ NearestTenth(snap.elapsed_seconds, x, CentisPerSecond)
            /\ IF d = 0 \/ x >= d THEN snap.progress_percent = 1000
               ELSE NearestTenth(snap.progress_percent, 100 * x, d)
            /\ snap.progress_percent <= 1000
            /\ NearestTenth(snap.remaining_seconds, Max(0, d - x), CentisPerSecond)
            /\ snap.is_complete <=> x >= d
            /\ d = 0 => /\ snap.is_complete
                        /\ snap.remaining_seconds = 0

\* a session of 3 seconds read after one second: a third of the way, which
\* the snapshot reports as 33.3 percent
C31_Witness ==
    /\ last.op = "to_dict"
    /\ last.arg = <<3, 100>>
    /\ last.ret.progress_percent = 333
    /\ ~last.ret.is_complete

----------------------------------------------------------------------------
(* SyncGameStateManager and GameStateManager: complete_exercise of the two *)
(* state managers, on the same timer and the same tables                    *)

\* the managers' skill update: nothing for an empty type or a zero amount
ManagerSkill(row, skill_type, delta) ==
    IF skill_type # "" /\ delta # 0 THEN UpdateSkill(row, skill_type, delta) ELSE row

\* SyncGameStateManager.complete_exercise, the player row after the rewards
\* and the move: check_level_up is given old_level - xp_gained as the old xp
SyncRewardedRow(row, o) ==
    LET reward == CalculateExerciseReward(Exercises[o.exercise_id], 100)
        r1 == [row EXCEPT !.xp = row.xp + reward.xp_gained,
                          !.gold = row.gold + reward.gold_gained]
        r2 == ManagerSkill(r1, reward.skill_bonus_type, reward.skill_bonus_amount)
        up == CheckLevelUp(row.level - reward.xp_gained, r2.xp)
        r3 == IF up[1] THEN [r2 EXCEPT !.level = up[2]] ELSE r2
    IN  IF o.destination_location_id # None
        THEN [r3 EXCEPT !.current_location_id = o.destination_location_id]
        ELSE r3

\* GameStateManager.complete_exercise, the player row after
\* update_player_stats and the move
AsyncRewardedRow(row, o) ==
    LET reward == CalculateExerciseReward(Exercises[o.exercise_id], 100)
        r1 == [row EXCEPT !.xp = row.xp + reward.xp_gained,
                          !.gold = row.gold + reward.gold_gained]
        r2 == ManagerSkill(r1, reward.skill_bonus_type, reward.skill_bonus_amount)
        up == CheckLevelUp(row.xp, r2.xp)
        r3 == IF up[1] THEN [r2 EXCEPT !.level = up[2]] ELSE r2
    IN  IF o.destination_location_id # None
        THEN [r3 EXCEPT !.current_location_id = o.destination_location_id]
        ELSE r3

\* A manager's complete_exercise, op naming the manager: the same
\* get_session, is_complete test, _unlock_next_location and complete_session
ManagerComplete(op, p) ==
    LET c == CompleteCheck(sessions, p, clock)
        t == TimerComplete(c.ss, p)
    IN  IF c.status # "proceed"
        THEN /\ sessions' = c.ss
             /\ last' = Call(op, p, c.status, c.val, c.sess, NoSession)
             /\ UNCHANGED <<clock, players, worlds, locations, segments, progress,
                            threads, rewarded>>
        ELSE IF ~players[p].exists
        THEN /\ sessions' = c.ss
             /\ last' = Call(op, p, "player_not_found", 0, c.sess, NoSession)
             /\ UNCHANGED <<clock, players, worlds, locations, segments, progress,
                            threads, rewarded>>
        ELSE /\ players' = [players EXCEPT ![p] =
                    IF op = "sync_complete_exercise"
                    THEN SyncRewardedRow(players[p], c.sess)
                    ELSE AsyncRewardedRow(players[p], c.sess)]
             /\ locations' = IF c.sess.destination_location_id # None
                             THEN UnlockNextLocation(worlds, locations, p)
                             ELSE locations
             /\ sessions' = t.ss
             /\ rewarded' = [rewarded EXCEPT ![c.sess.sid] = @ + 1]
             /\ last' = Call(op, p, "exercise_completed",
                             CalculateExerciseReward(Exercises[c.sess.exercise_id],
                                                     100).xp_gained,
                             t.out, t.dropped)
             /\ UNCHANGED <<clock, worlds, segments, progress, threads>>

SyncCompleteExercise(p) == ManagerComplete("sync_complete_exercise", p)

AsyncCompleteExercise(p) == ManagerComplete("async_complete_exercise", p)

MaxManagerXp == 300
ManagerXpDeltas == {-150, 300}

\* update_stats for xp totals from 0 to MaxManagerXp
AdjustXp(p, xp_delta) ==
    /\ players[p].exists
    /\ players[p].xp + xp_delta >= 0
    /\ players[p].xp + xp_delta <= MaxManagerXp
    /\ players' = [players EXCEPT ![p] = UpdateStatsRow(players[p], xp_delta, "", 0)]
    /\ last' = Call("update_stats", p, "ok", xp_delta, NoSession, NoSession)
    /\ UNCHANGED <<clock, sessions, worlds, locations, segments, progress,
                   threads, rewarded>>

\* One player served by the service and by both managers
ManagersNext ==
    \/ Tick
    \/ GetOrCreate("A")
    \/ \E k \in 1..Len(WorldPayloads) : CreateWorld("A", k)
    \/ \E d \in ManagerXpDeltas : AdjustXp("A", d)
    \/ \E dest \in Destinations : StartTravel("A", dest)
    \/ CompleteExercise("A")
    \/ SyncCompleteExercise("A")
    \/ AsyncCompleteExercise("A")

SpecManagers == Init /\ [][ManagersNext]_vars

\* What ExerciseService.complete_exercise makes of the current state
ServiceResult(p) ==
    LET c == CompleteCheck(sessions, p, clock)
        a == CompleteApply(players, worlds, locations, p, c.sess)
        t == TimerComplete(c.ss, p)
    IN  IF c.status = "proceed" /\ a.status = "exercise_completed"
        THEN [players |-> a.players, locations |-> a.locations, sessions |-> t.ss,
              status |-> a.status]
        ELSE [players |-> players, locations |-> locations, sessions |-> c.ss,
              status |-> IF c.status = "proceed" THEN a.status ELSE c.status]

\* C32: the synchronous manager, the asynchronous manager and the exercise
\* service implement the same complete_exercise transition: from the same
\* state each manager gives the outcome, the player row (xp, gold, skills,
\* level, current location), the unlock flags and the registry the service
\* gives.
C32_SameTransition ==
    [][last'.op \in {"sync_complete_exercise", "async_complete_exercise"} =>
          /\ last'.status = ServiceResult(last'.player).status
          /\ players' = ServiceResult(last'.player).players
          /\ locations' = ServiceResult(last'.player).locations
          /\ sessions' = ServiceResult(last'.player).sessions]_vars


\* The player's current location is an unlocked location of the player's
\* own world
AtOwnUnlockedLocation(p) ==
    LET l == players[p].current_location_id
    IN  /\ l \in LocationIds(locations)
        /\ locations[l].is_unlocked
        /\ OwnerOf(worlds, locations, l) = p

\* C33: once a player's world is created, after any sequence of start_travel
\* calls with existing destination ids and complete_exercise calls, the
\* player's current location is an unlocked location of that player's own
\* world.
C33_AtOwnUnlockedLocation ==
    \A p \in Players :
        (players[p].exists /\ WorldOf(worlds, p) # None) => AtOwnUnlockedLocation(p)

\* C34: when a start_travel of a player runs between the moment that
\* player's complete_exercise has read the elapsed session and the moment it
\* removes it, complete_exercise removes from the registry only the session
\* whose rewards it applied: the session registered meanwhile stays
\* registered, in progress.
C34_RemovesOnlyOwnSession ==
    [][(last'.op = "complete_exercise" /\ last'.status = "exercise_completed") =>
          LET p == last'.player
          IN  /\ last'.dropped.sid \in {NoSession.sid, last'.sess.sid}
              /\ sessions[p].sid # last'.sess.sid => sessions'[p] = sessions[p]]_vars

----------------------------------------------------------------------------
(* handle_exercise_request(complete) and the complete_exercise tool:       *)
(* complete_exercise inside the session context manager, whose commit runs  *)
(* after complete_exercise has returned                                     *)

\* the commit at the end of the context manager succeeds, or the database
\* refuses it (locked, I/O error) and the transaction is rolled back
CommitOutcomes == {"committed", "rolled_back"}

ExerciseRequest(p, commit) ==
    LET c == CompleteCheck(sessions, p, clock)
        a == CompleteApply(players, worlds, locations, p, c.sess)
        t == TimerComplete(c.ss, p)
        db == [players |-> players, locations |-> locations]
        failed == commit = "rolled_back"
    IN  IF c.status # "proceed" \/ a.status # "exercise_completed"
        THEN /\ sessions' = c.ss
             /\ last' = Call("exercise_request", p,
                             IF failed THEN "error"
                             ELSE IF c.status # "proceed" THEN c.status ELSE a.status,
                             c.val, c.sess, NoSession)
             /\ UNCHANGED <<clock, players, worlds, locations, segments, progress,
                            threads, rewarded>>
        ELSE LET end == SessionEnd(db, [players |-> a.players,
                                        locations |-> a.locations], failed)
             IN  /\ players' = end.players
                 /\ locations' = end.locations
                 /\ sessions' = t.ss
                 /\ rewarded' = IF failed THEN rewarded
                                ELSE [rewarded EXCEPT ![c.sess.sid] = @ + 1]
                 /\ last' = Call("exercise_request", p,
                                 IF failed THEN "error" ELSE a.status,
                                 a.val, t.out, t.dropped)
                 /\ UNCHANGED <<clock, worlds, segments, progress, threads>>

TxNext ==
    \/ Tick
    \/ \E k \in 1..Len(WorldPayloads) : CreateWorld("A", k)
    \/ \E d \in XpDeltas : UpdateStats("A", d)
    \/ \E dest \in Destinations : StartTravel("A", dest)
    \/ \E commit \in CommitOutcomes : ExerciseRequest("A", commit)

SpecTx == Init /\ [][TxNext]_vars

\* C35: across a complete_exercise request the registry and the tables stay
\* consistent: the player's session leaves the registry if and only if its
\* rewards and location move are committed; when the enclosing transaction
\* rolls back after complete_exercise returned, the session is still
\* registered.
C35_RemovedIffCommitted ==
    [][last'.op = "exercise_request" =>
          LET p == last'.player
          IN  (sessions[p] # NoSession /\ sessions'[p] = NoSession)
                  <=> players'[p] # players[p]]_vars

----------------------------------------------------------------------------
\* The final quest asked for again and again by one player, also with the
\* lowest score that wins it
FinalNext ==
    \/ GetOrCreate("A")
    \/ \E k \in 1..Len(WorldPayloads) : CreateWorld("A", k)
    \/ \E s \in 1..NumSegments : SyncCollectSegment("A", s)
    \/ \E pct \in PerformScores : PerformAtTavern("A", pct)
    \/ \E pct \in {VictoryPercent} \cup FinalScores : CompleteFinalQuest("A", pct)

SpecFinal == Init /\ [][FinalNext]_vars

\* C36: over any sequence of complete_final_quest calls for one player, the
\* victory rewards (xp, gold, reputation) are added to the player's stored
\* stats at most once; in particular a complete_final_quest that directly
\* follows a victorious one of the same player adds nothing.
C36_VictoryRewardsOnce ==
    [][(/\ last.op = "complete_final_quest" /\ last.status = "game_complete"
        /\ last'.op = "complete_final_quest" /\ last'.player = last.player)
          => players'[last.player] = players[last.player]]_vars

\* check_final_quest_ready: ready is can_perform_final of the inventory
FinalQuestReady(p) == Inventory(progress, p).can_perform_final

\* A collect_segment request of player p standing at the location of segment
\* s records the segment
CanCollect(p, s) ==
    /\ segments[s] \in LocationIds(locations)
    /\ CollectWrite(progress, p, s, progress[p][s]).status = "segment_collected"

\* C37: in every world that satisfies the generator contract a single player
\* can always reach, by travel, complete_exercise and collect_segment
\* requests, a state where check_final_quest_ready reports ready.  Travel
\* takes the player to any existing location, so ready is within reach
\* exactly when it holds already or every segment the player lacks is bound
\* to an existing location and collect_segment there records it.
C37_ReadyReachable ==
    \A p \in Players :
        (players[p].exists /\ WorldOf(worlds, p) # None) =>
            \/ FinalQuestReady(p)
            \/ \A s \in 1..NumSegments :
                  s \in CollectedSegmentIds(progress, p) \/ CanCollect(p, s)

\* the last request was a complete_exercise of p that succeeded
Arrived(p) ==
    /\ last'.op = "complete_exercise"
    /\ last'.player = p
    /\ last'.status = "exercise_completed"

\* C38: a successful start_travel changes only the timer registry entry of
\* its player: player rows (location, stats), progress rows, worlds and
\* unlock flags are as before, and so are the other players' sessions; the
\* current location of a player who has a world and the unlock flags of the
\* existing locations change only when a complete_exercise succeeds.
C38_StartTravelFrame ==
    [][/\ (last'.op = "start_travel" /\ last'.status = "travel_started")
            => /\ players' = players
               /\ worlds' = worlds
               /\ locations' = locations
               /\ segments' = segments
               /\ progress' = progress
               /\ \A q \in Players \ {last'.player} : sessions'[q] = sessions[q]
               /\ sessions'[last'.player] = last'.sess
       /\ \A p \in Players :
            (/\ players[p].exists /\ WorldOf(worlds, p) # None
             /\ players'[p].current_location_id # players[p].current_location_id)
                => Arrived(p)
       /\ \A l \in LocationIds(locations) :
            locations'[l] # locations[l] => Arrived(OwnerOf(worlds, locations, l))]_vars

\* a travel has started for a player while the other player has a session,
\* and the traveller is not at the destination
C38_Witness ==
    /\ last.op = "start_travel"
    /\ last.status = "travel_started"
    /\ \E q \in Players \ {last.player} : sessions[q] # NoSession
    /\ players[last.player].current_location_id # last.sess.destination_location_id

\* C39: what has_active_session(p) returns at a given clock reading does not
\* depend on whether get_session, check_session or can_complete was called
\* for p before: none of these reads changes the value of has_active_session
\* for any player.
C39_ReadsKeepActive ==
    [][last'.op \in {"get_session", "check_session", "can_complete"} =>
          \A p \in Players :
              HasActiveSession(sessions', p) = HasActiveSession(sessions, p)]_vars

\* C40: every timer operation issued for player p (start_session,
\* get_session, check_session, complete_session, cancel_session) leaves the
\* registry entry and the session state of every other player unchanged;
\* complete_session or cancel_session for a player with no session returns
\* nothing and changes nothing.
C40_OtherPlayersUntouched ==
    [][last'.op \in {"start_session", "get_session", "check_session",
                   "can_complete", "complete_session", "cancel_session"} =>
          /\ \A q \in Players \ {last'.player} : sessions'[q] = sessions[q]
          /\ (/\ last'.op \in {"complete_session", "cancel_session"}
              /\ sessions[last'.player] = NoSession)
                => /\ last'.status = "none"
                   /\ last'.sess = NoSession
                   /\ last'.dropped = NoSession
                   /\ sessions' = sessions]_vars

\* a player without a session has just asked to complete or cancel one while
\* the other player has a session
C40_Witness ==
    /\ last.op \in {"complete_session", "cancel_session"}
    /\ last.status = "none"
    /\ \E q \in Players \ {last.player} : sessions[q] # NoSession
====
